---------------------------- MODULE Spec2Model ----------------------------
(***************************************************************************)
(* Model of the editing core of zed-editor: Rope (chunked text), Buffer    *)
(* (Point <-> Offset), History (undo/redo snapshots) and Editor (word      *)
(* batching).                                                              *)
(*                                                                         *)
(* A text is a sequence of characters; a character is a one-element token  *)
(* such as "a", " " or "\n".  Offsets are BYTE offsets, columns are        *)
(* CHARACTER counts, as in the source.  A rope is the in-order sequence of *)
(* its chunks (what SumTree::iter yields); a Buffer is represented by its  *)
(* rope, the only part of a Buffer the Editor and History can observe.     *)
(* Option<T> is a sequence: <<>> is None, <<x>> is Some(x).                *)
(***************************************************************************)
EXTENDS Integers, Sequences, FiniteSets, TLC

\* ------------------------------------------------------------------ bounds
\* Every Buffer edit is guarded by bedits < MaxBufferEdits.
MaxBufferEdits == 1

\* The longest span a Buffer delete removes, in bytes.
MaxDeleteBytes == 2

\* In SpecBuffer every Buffer edit is also guarded by bedits < MaxCacheEdits.
MaxCacheEdits == 1

\* At most MaxHandles SumTree, Rope or Buffer handles share memory.
MaxHandles == 2

\* Every mutation of a handle is guarded by hops < MaxShareOps.
MaxShareOps == 3

\* Every version-incrementing Editor operation is guarded by version < MaxVersion.
MaxVersion == 3

\* Every cursor movement is guarded by moves < MaxMoves.
MaxMoves == 1

\* In SpecWords every operation is guarded by version < MaxWordVersion.
MaxWordVersion == 8

\* In SpecDeep every version-incrementing operation is guarded by
\* version < MaxDeepVersion.
MaxDeepVersion == 4

\* Rope::CHUNK_SIZE scaled down (1024 bytes in rope.rs) so that documents of a
\* few characters span several chunks and characters straddle a chunk's end.
CHUNK_SIZE == 4

\* The document size from which Rope::insert and Rope::delete splice chunks
\* instead of rebuilding, scaled down (1_000_000 bytes in rope.rs); it stays
\* above every size the Editor specifications reach.
REBUILD_THRESHOLD == 16

\* Buffer::update_scroll_prediction evicts to EVICTION_TARGET lines when more
\* than EVICTION_TRIGGER lines are cached: 10_000 and 5_000 in buffer.rs,
\* scaled down so that documents of three lines pass the ceiling.
EVICTION_TRIGGER == 2
EVICTION_TARGET == 1

\* --------------------------------------------------------- program constants
indent_width == 4

\* LineOffsetCache::CACHE_PADDING
CACHE_PADDING == 200

\* calculate_precalc_range: BASE_PADDING and VELOCITY_MULTIPLIER
BASE_PADDING == 100
VELOCITY_MULTIPLIER == 2

\* -------------------------------------------------------------- characters
\* A token of the alphabet that encodes to two UTF-8 bytes; all others are ASCII.
WideChars == {"U+00E9"}

\* char::len_utf8
Utf8Len(c) == IF c \in WideChars THEN 2 ELSE 1

\* char::is_whitespace, on the characters of the model's alphabet
IsWhitespace(c) == c \in {" ", "\t", "\n"}

\* str::len: length in bytes
RECURSIVE StrLen(_)
StrLen(s) == IF s = <<>> THEN 0 ELSE Utf8Len(Head(s)) + StrLen(Tail(s))

\* Number of characters of s that START before byte offset b
\* (the loop `for ch in chars { if bytes_counted >= b { break }; bytes_counted += len }`).
RECURSIVE CharsBefore(_, _, _)
CharsBefore(s, b, counted) ==
    IF s = <<>> \/ counted >= b THEN 0
    ELSE 1 + CharsBefore(Tail(s), b, counted + Utf8Len(Head(s)))

\* str::is_char_boundary
IsCharBoundary(s, b) ==
    \E k \in 0..Len(s) : StrLen(SubSeq(s, 1, k)) = b

\* &s[a..b] for byte offsets a <= b on character boundaries
StrSlice(s, a, b) == SubSeq(s, CharsBefore(s, a, 0) + 1, CharsBefore(s, b, 0))

\* String::insert_str(pos, text)
InsertStr(s, pos, text) ==
    StrSlice(s, 0, pos) \o text \o StrSlice(s, pos, StrLen(s))

\* String::drain(start..end)
DrainStr(s, start, end) ==
    StrSlice(s, 0, start) \o StrSlice(s, end, StrLen(s))

\* ------------------------------------------------------------------- Chunk
\* Chunk::new: byte offsets of the newlines of the chunk's text
RECURSIVE newline_scan(_, _)
newline_scan(s, pos) ==
    IF s = <<>> THEN <<>>
    ELSE (IF Head(s) = "\n" THEN <<pos>> ELSE <<>>)
         \o newline_scan(Tail(s), pos + Utf8Len(Head(s)))

Chunk_newline_positions(chunk) == newline_scan(chunk, 0)

Chunk_len(chunk) == StrLen(chunk)

Chunk_count_lines(chunk) == Len(Chunk_newline_positions(chunk))

\* Chunk::get_newline_position: Option<usize>
Chunk_get_newline_position(chunk, line_idx) ==
    IF line_idx < Chunk_count_lines(chunk)
    THEN <<Chunk_newline_positions(chunk)[line_idx + 1]>>
    ELSE <<>>

\* -------------------------------------------------------------------- Rope
\* Number of characters the next chunk takes: up to the first character
\* boundary at or after CHUNK_SIZE bytes, or the end of the text.
RECURSIVE TakeChunk(_, _)
TakeChunk(s, bytes) ==
    IF s = <<>> \/ bytes >= CHUNK_SIZE THEN 0
    ELSE 1 + TakeChunk(Tail(s), bytes + Utf8Len(Head(s)))

\* Rope::from_text with the chunk cut at exactly CHUNK_SIZE bytes: a character
\* that straddles the cut is lost.
RECURSIVE Rope_from_text_cut_at_bytes(_)
Rope_from_text_cut_at_bytes(text) ==
    IF text = <<>> THEN <<>>
    ELSE LET k == TakeChunk(text, 0)
             fits == StrLen(SubSeq(text, 1, k)) <= CHUNK_SIZE
         IN  <<SubSeq(text, 1, IF fits THEN k ELSE k - 1)>>
             \o Rope_from_text_cut_at_bytes(SubSeq(text, k + 1, Len(text)))

RECURSIVE Rope_from_text(_)
Rope_from_text(text) ==
    IF text = <<>> THEN <<>>
    ELSE LET k == TakeChunk(text, 0)
         IN  <<SubSeq(text, 1, k)>> \o Rope_from_text(SubSeq(text, k + 1, Len(text)))

RECURSIVE Rope_to_string(_)
Rope_to_string(rope) ==
    IF rope = <<>> THEN <<>> ELSE Head(rope) \o Rope_to_string(Tail(rope))

\* tree.summary().len
RECURSIVE Rope_len(_)
Rope_len(rope) ==
    IF rope = <<>> THEN 0 ELSE Chunk_len(Head(rope)) + Rope_len(Tail(rope))

\* tree.summary().lines: the number of newlines
RECURSIVE Rope_line_count(_)
Rope_line_count(rope) ==
    IF rope = <<>> THEN 0 ELSE Chunk_count_lines(Head(rope)) + Rope_line_count(Tail(rope))

Rope_is_empty(rope) == rope = <<>>

\* Rope::line: Option<String>.  s is what remains of the chunks' characters.
RECURSIVE line_loop(_, _, _, _, _)
line_loop(s, line_idx, current_line, line_content, found_line) ==
    IF s = <<>> THEN (IF found_line THEN <<line_content>> ELSE <<>>)
    ELSE LET ch == Head(s)
         IN  IF current_line = line_idx
             THEN IF ch = "\n" THEN <<line_content>>
                  ELSE line_loop(Tail(s), line_idx, current_line,
                                 Append(line_content, ch), TRUE)
             ELSE IF ch = "\n"
                  THEN IF current_line + 1 > line_idx
                       THEN (IF found_line THEN <<line_content>> ELSE <<>>)
                       ELSE line_loop(Tail(s), line_idx, current_line + 1,
                                      line_content, found_line)
                  ELSE line_loop(Tail(s), line_idx, current_line,
                                 line_content, found_line)

Rope_line(rope, line_idx) == line_loop(Rope_to_string(rope), line_idx, 0, <<>>, FALSE)

RECURSIVE line_to_byte_loop(_, _, _, _)
line_to_byte_loop(chunks, target_line, current_line, byte_offset) ==
    IF chunks = <<>> THEN byte_offset
    ELSE LET chunk == Head(chunks)
             newlines_in_chunk == Chunk_count_lines(chunk)
         IN  IF current_line + newlines_in_chunk >= target_line
             THEN LET line_in_chunk == target_line - current_line
                      newline_pos == Chunk_get_newline_position(chunk, line_in_chunk - 1)
                  IN  IF line_in_chunk = 0 THEN byte_offset
                      ELSE IF newline_pos # <<>> THEN byte_offset + newline_pos[1] + 1
                      ELSE byte_offset + Chunk_len(chunk)
             ELSE line_to_byte_loop(Tail(chunks), target_line,
                                    current_line + newlines_in_chunk,
                                    byte_offset + Chunk_len(chunk))

\* Rope::line_to_byte that returns the offset of the newline before the line
\* instead of the offset after it
Rope_line_to_byte_on_newline(rope, target_line) ==
    IF target_line = 0 THEN 0 ELSE line_to_byte_loop(rope, target_line, 0, 0) - 1

Rope_line_to_byte(rope, target_line) ==
    IF target_line = 0 THEN 0 ELSE line_to_byte_loop(rope, target_line, 0, 0)

\* The character loop of byte_to_line_col inside the chunk that holds target_byte.
RECURSIVE byte_to_line_col_chars(_, _, _, _, _)
byte_to_line_col_chars(s, offset_in_chunk, bytes_counted, line, column) ==
    IF s = <<>> \/ bytes_counted >= offset_in_chunk THEN <<line, column>>
    ELSE LET ch == Head(s)
         IN  byte_to_line_col_chars(Tail(s), offset_in_chunk,
                                    bytes_counted + Utf8Len(ch),
                                    IF ch = "\n" THEN line + 1 ELSE line,
                                    IF ch = "\n" THEN 0 ELSE column + 1)

RECURSIVE byte_to_line_col_loop(_, _, _, _, _)
byte_to_line_col_loop(chunks, target_byte, byte_offset, line, column) ==
    IF chunks = <<>> THEN <<line, column>>
    ELSE LET chunk == Head(chunks)
             chunk_len == Chunk_len(chunk)
             nl == Chunk_newline_positions(chunk)
         IN  IF byte_offset + chunk_len > target_byte
             THEN byte_to_line_col_chars(chunk, target_byte - byte_offset, 0, line, column)
             ELSE byte_to_line_col_loop(
                      Tail(chunks), target_byte, byte_offset + chunk_len,
                      line + Chunk_count_lines(chunk),
                      IF nl # <<>>
                      THEN Len(StrSlice(chunk, nl[Len(nl)] + 1, chunk_len))
                      ELSE column + Len(chunk))

\* Rope::byte_to_line_col: <<line, column>>, column in characters
Rope_byte_to_line_col(rope, target_byte) ==
    IF target_byte = 0 THEN <<0, 0>>
    ELSE byte_to_line_col_loop(rope, target_byte, 0, 0, 0)

RECURSIVE slice_bytes_loop(_, _, _, _)
slice_bytes_loop(chunks, start, end, current_pos) ==
    IF chunks = <<>> THEN <<>>
    ELSE LET chunk == Head(chunks)
             chunk_len == Chunk_len(chunk)
             chunk_end == current_pos + chunk_len
             slice_start == IF current_pos < start THEN start - current_pos ELSE 0
             slice_end == IF chunk_end > end THEN end - current_pos ELSE chunk_len
         IN  IF chunk_end <= start
             THEN slice_bytes_loop(Tail(chunks), start, end, chunk_end)
             ELSE IF current_pos >= end THEN <<>>
             ELSE StrSlice(chunk, slice_start, slice_end)
                  \o slice_bytes_loop(Tail(chunks), start, end, chunk_end)

Rope_slice_bytes(rope, start, end) ==
    IF start >= end \/ start >= Rope_len(rope) THEN <<>>
    ELSE LET e == IF end < Rope_len(rope) THEN end ELSE Rope_len(rope)
         IN  slice_bytes_loop(rope, start, e, 0)

\* The loops of Rope::line_byte_range over the characters s that remain:
\* Option<(usize, usize)>
RECURSIVE line_byte_range_loop(_, _, _, _, _, _)
line_byte_range_loop(s, start, line_idx, current_line, byte_offset, found_start) ==
    IF s = <<>> THEN (IF found_start THEN <<<<start, byte_offset>>>> ELSE <<>>)
    ELSE LET ch == Head(s)
             found == found_start \/ current_line = line_idx
         IN  IF found /\ ch = "\n" THEN <<<<start, byte_offset>>>>
             ELSE IF ch = "\n" /\ current_line + 1 > line_idx
                  THEN (IF found THEN <<<<start, byte_offset + 1>>>> ELSE <<>>)
                  ELSE line_byte_range_loop(Tail(s), start, line_idx,
                                            IF ch = "\n" THEN current_line + 1
                                            ELSE current_line,
                                            byte_offset + Utf8Len(ch), found)

\* Rope::line_byte_range with the line's newline inside the range
Rope_line_byte_range_with_newline(rope, line_idx) ==
    LET r == line_byte_range_loop(Rope_to_string(rope), Rope_line_to_byte(rope, line_idx),
                                  line_idx, 0, 0, FALSE)
    IN  IF r = <<>> THEN <<>>
        ELSE <<<<r[1][1], IF r[1][2] < Rope_len(rope) THEN r[1][2] + 1 ELSE r[1][2]>>>>

\* Rope::line_byte_range
Rope_line_byte_range(rope, line_idx) ==
    line_byte_range_loop(Rope_to_string(rope), Rope_line_to_byte(rope, line_idx),
                         line_idx, 0, 0, FALSE)

\* The first loop of insert_optimized: <<insert_chunk_idx, insert_offset>>
RECURSIVE insert_locate(_, _, _, _, _)
insert_locate(chunks, pos, idx, current_pos, found) ==
    IF chunks = <<>> THEN found
    ELSE LET chunk_end == current_pos + Chunk_len(Head(chunks))
         IN  IF pos >= current_pos /\ pos < chunk_end
             THEN <<idx, pos - current_pos>>
             ELSE insert_locate(Tail(chunks), pos, idx + 1, chunk_end,
                                IF pos >= chunk_end THEN <<idx + 1, 0>> ELSE found)

\* The second loop of insert_optimized when the text is not split into a chunk:
\* the text's chunks go in front of chunk insert_chunk_idx, if there is one.
RECURSIVE insert_whole(_, _, _, _)
insert_whole(chunks, idx, insert_chunk_idx, text) ==
    IF chunks = <<>> THEN <<>>
    ELSE (IF idx = insert_chunk_idx THEN Rope_from_text(text) ELSE <<>>)
         \o <<Head(chunks)>>
         \o insert_whole(Tail(chunks), idx + 1, insert_chunk_idx, text)

\* Rope::insert_optimized, the path of documents of REBUILD_THRESHOLD bytes or more
Rope_insert_optimized(rope, pos, text) ==
    LET at == insert_locate(rope, pos, 0, 0, <<0, 0>>)
        insert_chunk_idx == at[1]
        insert_offset == at[2]
    IN  IF insert_chunk_idx < Len(rope) /\ insert_offset > 0
        THEN LET chunk_text == rope[insert_chunk_idx + 1]
             IN  SubSeq(rope, 1, insert_chunk_idx)
                 \o <<StrSlice(chunk_text, 0, insert_offset)>>
                 \o Rope_from_text(text)
                 \o <<StrSlice(chunk_text, insert_offset, StrLen(chunk_text))>>
                 \o SubSeq(rope, insert_chunk_idx + 2, Len(rope))
        ELSE insert_whole(rope, 0, insert_chunk_idx, text)

\* Rope::insert
Rope_insert(rope, pos, text) ==
    IF text = <<>> THEN rope
    ELSE IF Rope_len(rope) < REBUILD_THRESHOLD
         THEN Rope_from_text(InsertStr(Rope_to_string(rope), pos, text))
         ELSE Rope_insert_optimized(rope, pos, text)

\* Rope::delete_optimized, the path of documents of REBUILD_THRESHOLD bytes or more
RECURSIVE Rope_delete_optimized(_, _, _, _)
Rope_delete_optimized(chunks, start, end, current_pos) ==
    IF chunks = <<>> THEN <<>>
    ELSE LET chunk_text == Head(chunks)
             chunk_len == Chunk_len(chunk_text)
             chunk_end == current_pos + chunk_len
             keep_start == IF current_pos < start THEN start - current_pos ELSE 0
             keep_end == IF chunk_end > end THEN end - current_pos ELSE chunk_len
         IN  (IF chunk_end <= start \/ current_pos >= end
              THEN <<chunk_text>>
              ELSE (IF keep_start > 0
                    THEN <<StrSlice(chunk_text, 0, keep_start)>> ELSE <<>>)
                   \o (IF keep_end < chunk_len
                       THEN <<StrSlice(chunk_text, keep_end, chunk_len)>> ELSE <<>>))
             \o Rope_delete_optimized(Tail(chunks), start, end, chunk_end)

\* Rope::delete
Rope_delete(rope, start, end) ==
    IF start >= end THEN rope
    ELSE IF Rope_len(rope) < REBUILD_THRESHOLD
         THEN Rope_from_text(DrainStr(Rope_to_string(rope), start, end))
         ELSE Rope_delete_optimized(rope, start, end, 0)

\* ------------------------------------------------------------------ Buffer
Point(row, column) == [row |-> row, column |-> column]

Point_zero == Point(0, 0)

Buffer_new == <<>>

Buffer_from_text(text) == Rope_from_text(text)

Buffer_len(buffer) == Rope_len(buffer)

\* Buffer::line_count without the line that follows the last newline
Buffer_line_count_of_newlines(buffer) == Rope_line_count(buffer)

Buffer_line_count(buffer) ==
    IF Rope_is_empty(buffer) THEN 1 ELSE Rope_line_count(buffer) + 1

Buffer_to_string(buffer) == Rope_to_string(buffer)

Buffer_line(buffer, line_idx) == Rope_line(buffer, line_idx)

\* Buffer::lines: the lines line() yields for 0..line_count()
Buffer_lines(buffer) ==
    LET got == [i \in 1..Buffer_line_count(buffer) |-> Buffer_line(buffer, i - 1)]
        some == SelectSeq(got, LAMBDA line : line # <<>>)
    IN  [i \in 1..Len(some) |-> some[i][1]]

Buffer_insert(buffer, offset, text) == Rope_insert(buffer, offset, text)

Buffer_delete(buffer, start, end) == Rope_delete(buffer, start, end)

\* The first `column` characters of a line (`chars().take(column)`)
TakeChars(line_text, column) ==
    SubSeq(line_text, 1, IF column < Len(line_text) THEN column ELSE Len(line_text))

\* Buffer::point_to_offset that adds the column without stopping at the
\* line's end
Buffer_point_to_offset_unclamped(buffer, point) ==
    Rope_line_to_byte(buffer, point.row) + point.column

Buffer_point_to_offset(buffer, point) ==
    LET line_start == Rope_line_to_byte(buffer, point.row)
        line_text == Buffer_line(buffer, point.row)
    IN  IF line_text # <<>>
        THEN line_start + StrLen(TakeChars(line_text[1], point.column))
        ELSE line_start

\* Buffer::offset_to_point with the column counted in bytes
Buffer_offset_to_point_byte_column(buffer, offset) ==
    LET lc == Rope_byte_to_line_col(buffer, offset)
    IN  Point(lc[1], offset - Rope_line_to_byte(buffer, lc[1]))

Buffer_offset_to_point(buffer, offset) ==
    LET lc == Rope_byte_to_line_col(buffer, offset)
    IN  Point(lc[1], lc[2])

\* ----------------------------------------------- SumTree and its Arc nodes
\* The sections above see a Rope as the chunks its tree yields in order.  This
\* section keeps the tree itself: `nodes` is the memory of Arc<Node>
\* allocations, an address is an index into it, and a node is never written
\* again once it is allocated.

\* TextMetrics, the Summary of a Chunk
TextMetrics(len, lines) == [len |-> len, lines |-> lines]

TextMetrics_default == TextMetrics(0, 0)

TextMetrics_add_summary(a, b) == TextMetrics(a.len + b.len, a.lines + b.lines)

\* <Chunk as Item>::summary
Chunk_summary(chunk) == TextMetrics(Chunk_len(chunk), Chunk_count_lines(chunk))

Node_Leaf(items, summary) ==
    [leaf |-> TRUE, items |-> items, children |-> <<>>, summary |-> summary]

Node_Internal(children, summary) ==
    [leaf |-> FALSE, items |-> <<>>, children |-> children, summary |-> summary]

\* SumTree::new; root is an Option<Arc<Node>>
SumTree_new == [root |-> <<>>]

SumTree_summary(nodes, tree) ==
    IF tree.root # <<>> THEN nodes[tree.root[1]].summary ELSE TextMetrics_default

SumTree_is_empty(tree) == tree.root = <<>>

\* SumTree::push with the combined summary left at the old root's summary
SumTree_push_stale_summary(nodes, tree, item) ==
    LET new_summary == Chunk_summary(item)
        new_leaf == Len(nodes) + 1
        with_leaf == Append(nodes, Node_Leaf(<<item>>, new_summary))
    IN  IF tree.root = <<>>
        THEN [nodes |-> with_leaf, tree |-> [root |-> <<new_leaf>>]]
        ELSE LET old_root == tree.root[1]
             IN  [nodes |-> Append(with_leaf,
                                   Node_Internal(<<old_root, new_leaf>>,
                                                 nodes[old_root].summary)),
                  tree |-> [root |-> <<new_leaf + 1>>]]

\* SumTree::push: the memory and the tree after the push
SumTree_push(nodes, tree, item) ==
    LET new_summary == Chunk_summary(item)
        new_leaf == Len(nodes) + 1
        with_leaf == Append(nodes, Node_Leaf(<<item>>, new_summary))
    IN  IF tree.root = <<>>
        THEN [nodes |-> with_leaf, tree |-> [root |-> <<new_leaf>>]]
        ELSE LET old_root == tree.root[1]
                 combined_summary ==
                     TextMetrics_add_summary(nodes[old_root].summary, new_summary)
             IN  [nodes |-> Append(with_leaf,
                                   Node_Internal(<<old_root, new_leaf>>,
                                                 combined_summary)),
                  tree |-> [root |-> <<new_leaf + 1>>]]

RECURSIVE ReverseSeq(_)
ReverseSeq(s) == IF s = <<>> THEN <<>> ELSE Append(ReverseSeq(Tail(s)), Head(s))

\* SumTreeIter::next until it returns None: every item the iterator yields.
\* The top of the stack is its last element.
RECURSIVE SumTreeIter_next(_, _)
SumTreeIter_next(nodes, stack) ==
    IF stack = <<>> THEN <<>>
    ELSE LET node == nodes[stack[Len(stack)]]
             rest == SubSeq(stack, 1, Len(stack) - 1)
         IN  IF node.leaf
             THEN node.items \o SumTreeIter_next(nodes, rest)
             ELSE SumTreeIter_next(nodes, rest \o ReverseSeq(node.children))

\* SumTree::iter, collected
SumTree_iter(nodes, tree) == SumTreeIter_next(nodes, tree.root)

RECURSIVE SumSummaries(_)
SumSummaries(items) ==
    IF items = <<>> THEN TextMetrics_default
    ELSE TextMetrics_add_summary(Chunk_summary(Head(items)), SumSummaries(Tail(items)))

\* SumTree::from_items, which rope.rs calls and sum_tree.rs does not define.
\* Following its specification it builds the tree over the sequence in one
\* pass: a leaf for each item, and one internal node over the leaves.
SumTree_from_items(nodes, items) ==
    IF items = <<>> THEN [nodes |-> nodes, tree |-> SumTree_new]
    ELSE LET leaves == [i \in 1..Len(items) |->
                            Node_Leaf(<<items[i]>>, Chunk_summary(items[i]))]
             with_leaves == nodes \o leaves
         IN  IF Len(items) = 1
             THEN [nodes |-> with_leaves, tree |-> [root |-> <<Len(nodes) + 1>>]]
             ELSE [nodes |-> Append(with_leaves,
                                    Node_Internal([i \in 1..Len(items) |-> Len(nodes) + i],
                                                  SumSummaries(items))),
                   tree |-> [root |-> <<Len(nodes) + Len(items) + 1>>]]

\* A Rope that holds its tree: [tree |-> SumTree]
TreeRope_new == [tree |-> SumTree_new]

\* Rope::len, Rope::line_count, Rope::is_empty, Rope::to_string on the tree
TreeRope_len(nodes, rope) == SumTree_summary(nodes, rope.tree).len

TreeRope_line_count(nodes, rope) == SumTree_summary(nodes, rope.tree).lines

TreeRope_is_empty(rope) == SumTree_is_empty(rope.tree)

TreeRope_to_string(nodes, rope) == Rope_to_string(SumTree_iter(nodes, rope.tree))

\* Rope::from_text: the memory and the Rope
TreeRope_from_text(nodes, text) ==
    IF text = <<>> THEN [nodes |-> nodes, rope |-> TreeRope_new]
    ELSE LET built == SumTree_from_items(nodes, Rope_from_text(text))
         IN  [nodes |-> built.nodes, rope |-> [tree |-> built.tree]]

\* Rope::insert
TreeRope_insert(nodes, rope, pos, text) ==
    IF text = <<>> THEN [nodes |-> nodes, rope |-> rope]
    ELSE IF TreeRope_len(nodes, rope) < REBUILD_THRESHOLD
         THEN TreeRope_from_text(nodes, InsertStr(TreeRope_to_string(nodes, rope), pos, text))
         ELSE LET built == SumTree_from_items(
                               nodes,
                               Rope_insert_optimized(SumTree_iter(nodes, rope.tree), pos, text))
              IN  [nodes |-> built.nodes, rope |-> [tree |-> built.tree]]

\* Rope::delete
TreeRope_delete(nodes, rope, start, end) ==
    IF start >= end THEN [nodes |-> nodes, rope |-> rope]
    ELSE IF TreeRope_len(nodes, rope) < REBUILD_THRESHOLD
         THEN TreeRope_from_text(nodes, DrainStr(TreeRope_to_string(nodes, rope), start, end))
         ELSE LET built == SumTree_from_items(
                               nodes,
                               Rope_delete_optimized(SumTree_iter(nodes, rope.tree),
                                                     start, end, 0))
              IN  [nodes |-> built.nodes, rope |-> [tree |-> built.tree]]

\* ------------------------------------------------------- Arc<Rope> cells
\* `cells` is the memory of Arc<Rope> allocations; a Buffer handle holds the
\* address of one.  The strong count of a cell is the number of handles on it.
Arc_strong_count(handles, cell) ==
    Cardinality({h \in 1..Len(handles) :
                     handles[h].kind = "buffer" /\ handles[h].cell = cell})

\* Arc::make_mut that never copies: the shared cell itself is handed out
Arc_make_mut_in_place(cells, handles, h) ==
    [cells |-> cells, handles |-> handles]

\* Arc::make_mut(&mut self.rope) of handle h: a cell shared with another handle
\* is cloned (Rope::clone keeps the same root) and h moves to the copy.
Arc_make_mut(cells, handles, h) ==
    IF Arc_strong_count(handles, handles[h].cell) > 1
    THEN [cells |-> Append(cells, cells[handles[h].cell]),
          handles |-> [handles EXCEPT ![h].cell = Len(cells) + 1]]
    ELSE [cells |-> cells, handles |-> handles]

\* ------------------------------------------------- LineOffsetCache, ranges
\* std::ops::Range<usize>
Range(start, end) == [start |-> start, end |-> end]

RangeContains(r, x) == r.start <= x /\ x < r.end

RangeLen(r) == IF r.end > r.start THEN r.end - r.start ELSE 0

RangeIsEmpty(r) == r.start >= r.end

Min(a, b) == IF a < b THEN a ELSE b

\* usize::saturating_sub
SatSub(a, b) == IF a > b THEN a - b ELSE 0

\* The fields of LineOffsetCache that decide what it returns.  current_version,
\* last_access, cache_hits and cache_misses are written and never read by it.
LineOffsetCache_new(total_lines) ==
    [cached_offsets |-> <<>>, cached_range |-> Range(0, 0), total_lines |-> total_lines]

LineOffsetCache_is_cached(c, line) ==
    /\ RangeContains(c.cached_range, line)
    /\ line - c.cached_range.start < Len(c.cached_offsets)

\* Option<usize>
LineOffsetCache_get_cached_offset(c, line) ==
    IF LineOffsetCache_is_cached(c, line)
    THEN c.cached_offsets[line - c.cached_range.start + 1]
    ELSE <<>>

LineOffsetCache_expand_range_for_caching(c, range) ==
    Range(SatSub(range.start, CACHE_PADDING),
          Min(range.end + CACHE_PADDING, c.total_lines))

LineOffsetCache_ensure_range_cached(c, rope, range) ==
    IF range.start >= c.cached_range.start /\ range.end <= c.cached_range.end
    THEN c
    ELSE LET new_range == LineOffsetCache_expand_range_for_caching(c, range)
             new_offsets ==
                 [i \in 1..RangeLen(new_range) |->
                     LET line == new_range.start + i - 1
                     IN  IF line < c.total_lines
                         THEN <<Rope_line_to_byte(rope, line)>>
                         ELSE <<>>]
         IN  [c EXCEPT !.cached_range = new_range, !.cached_offsets = new_offsets]

\* invalidate_lines: `lines` is the set of the line numbers passed
LineOffsetCache_invalidate_lines(c, lines) ==
    [c EXCEPT !.cached_offsets =
        [i \in 1..Len(c.cached_offsets) |->
            IF /\ c.cached_range.start + i - 1 \in lines
               /\ RangeContains(c.cached_range, c.cached_range.start + i - 1)
            THEN <<>>
            ELSE c.cached_offsets[i]]]

LineOffsetCache_invalidate_all(c) ==
    [c EXCEPT !.cached_range = Range(0, 0), !.cached_offsets = <<>>]

LineOffsetCache_should_expand_cache(c, line) ==
    \/ RangeIsEmpty(c.cached_range)
    \/ line < c.cached_range.start /\ c.cached_range.start - line < CACHE_PADDING
    \/ line >= c.cached_range.end /\ line - c.cached_range.end < CACHE_PADDING

LineOffsetCache_expand_range_to_include(c, line) ==
    IF RangeIsEmpty(c.cached_range)
    THEN Range(SatSub(line, CACHE_PADDING), Min(line + CACHE_PADDING, c.total_lines))
    ELSE Range(IF line < c.cached_range.start
               THEN SatSub(line, CACHE_PADDING)
               ELSE c.cached_range.start,
               IF line >= c.cached_range.end
               THEN Min(line + CACHE_PADDING, c.total_lines)
               ELSE c.cached_range.end)

LineOffsetCache_cache_miss_calculate(c, line, rope) ==
    IF LineOffsetCache_should_expand_cache(c, line)
    THEN LineOffsetCache_ensure_range_cached(
             c, rope, LineOffsetCache_expand_range_to_include(c, line))
    ELSE c

\* get_offsets_zero_alloc: the cache afterwards and the offsets returned
RECURSIVE LineOffsetCache_get_offsets_zero_alloc(_, _, _)
LineOffsetCache_get_offsets_zero_alloc(c, lines, rope) ==
    IF lines = <<>> THEN [cache |-> c, offsets |-> <<>>]
    ELSE LET line == Head(lines)
             hit == LineOffsetCache_get_cached_offset(c, line)
             c1 == IF LineOffsetCache_is_cached(c, line) /\ hit # <<>>
                   THEN c
                   ELSE LineOffsetCache_cache_miss_calculate(c, line, rope)
             offset == IF LineOffsetCache_is_cached(c, line) /\ hit # <<>>
                       THEN hit[1]
                       ELSE Rope_line_to_byte(rope, line)
             rest == LineOffsetCache_get_offsets_zero_alloc(c1, Tail(lines), rope)
         IN  [cache |-> rest.cache, offsets |-> <<offset>> \o rest.offsets]

LineOffsetCache_update_line_count(c, new_total_lines) ==
    LET t == [c EXCEPT !.total_lines = new_total_lines]
    IN  IF c.cached_range.end > new_total_lines
        THEN IF c.cached_range.start > new_total_lines
             THEN [t EXCEPT !.cached_range = Range(0, new_total_lines),
                            !.cached_offsets = <<>>]
             ELSE [t EXCEPT !.cached_range = Range(c.cached_range.start, new_total_lines),
                            !.cached_offsets =
                                SubSeq(c.cached_offsets, 1,
                                       Min(new_total_lines - c.cached_range.start,
                                           Len(c.cached_offsets)))]
        ELSE t

\* cache_stats().cached_lines
LineOffsetCache_cached_lines(c) ==
    Cardinality({i \in 1..Len(c.cached_offsets) : c.cached_offsets[i] # <<>>})

LineOffsetCache_smart_eviction(c, max_cached_lines) ==
    IF /\ Len(c.cached_offsets) > max_cached_lines
       /\ RangeLen(c.cached_range) > max_cached_lines
    THEN [c EXCEPT !.cached_range = Range(0, 0), !.cached_offsets = <<>>]
    ELSE c

\* --------------------------------------------------------- PredictiveCache
\* scroll_delta and frame_time are f32 in the source; the model passes whole
\* numbers, so scroll_velocity is a whole number too.
PredictiveCache_new ==
    [visible_range |-> Range(0, 0), precalc_range |-> Range(0, 0),
     scroll_direction |-> "Stationary", scroll_velocity |-> 0]

PredictiveCache_calculate_precalc_range(pc, visible_range) ==
    LET velocity_padding == pc.scroll_velocity * VELOCITY_MULTIPLIER
        total_padding == BASE_PADDING + Min(velocity_padding, 300)
    IN  CASE pc.scroll_direction = "Up" ->
                 Range(SatSub(visible_range.start, total_padding * 2),
                       visible_range.end + total_padding)
          [] pc.scroll_direction = "Down" ->
                 Range(SatSub(visible_range.start, total_padding),
                       visible_range.end + total_padding * 2)
          [] OTHER ->
                 Range(SatSub(visible_range.start, total_padding),
                       visible_range.end + total_padding)

PredictiveCache_update_scroll_prediction(pc, new_visible_range, scroll_delta, frame_time) ==
    LET abs == IF scroll_delta < 0 THEN -scroll_delta ELSE scroll_delta
        moved == [pc EXCEPT
                    !.scroll_velocity = IF frame_time > 0 THEN abs \div frame_time ELSE 0,
                    !.scroll_direction = IF scroll_delta < 0 THEN "Up"
                                         ELSE IF scroll_delta > 0 THEN "Down"
                                         ELSE "Stationary",
                    !.visible_range = new_visible_range]
    IN  [moved EXCEPT !.precalc_range =
            PredictiveCache_calculate_precalc_range(moved, new_visible_range)]

PredictiveCache_get_precalc_range(pc, total_lines) ==
    Range(Min(pc.precalc_range.start, SatSub(total_lines, 1)),
          Min(pc.precalc_range.end, total_lines))

\* predictive_ensure_cached; should_precache is whether less than 500 ms have
\* passed since the last scroll
LineOffsetCache_predictive_ensure_cached(c, rope, pc, total_lines, should_precache) ==
    LET precalc_range == PredictiveCache_get_precalc_range(pc, total_lines)
    IN  IF should_precache /\ ~RangeIsEmpty(precalc_range)
        THEN LineOffsetCache_ensure_range_cached(c, rope, precalc_range)
        ELSE c

\* ------------------------------------------- Buffer with its line caches
\* The Buffer struct: rope, line_cache, predictive_cache.  (The Buffer_*
\* operators above are the same methods seen through the rope alone, which is
\* all the Editor reads.)
CachedBuffer_from_text(text) ==
    [rope |-> Rope_from_text(text),
     line_cache |-> LineOffsetCache_new(Rope_line_count(Rope_from_text(text))),
     predictive_cache |-> PredictiveCache_new]

CachedBuffer_new ==
    [rope |-> <<>>, line_cache |-> LineOffsetCache_new(0),
     predictive_cache |-> PredictiveCache_new]

\* Buffer::insert that invalidates the edited line only, also when the text
\* holds a newline
CachedBuffer_insert_invalidates_one_line(b, offset, text) ==
    LET line == Rope_byte_to_line_col(b.rope, offset)[1]
        invalidated == LineOffsetCache_invalidate_lines(b.line_cache, {line})
        rope == Rope_insert(b.rope, offset, text)
    IN  [b EXCEPT !.rope = rope,
                  !.line_cache = LineOffsetCache_update_line_count(
                                     invalidated, Rope_line_count(rope))]

CachedBuffer_insert(b, offset, text) ==
    LET line == Rope_byte_to_line_col(b.rope, offset)[1]
        affected == IF \E i \in 1..Len(text) : text[i] = "\n"
                    THEN {l \in 0..Buffer_line_count(b.rope) : l >= line
                                                               /\ l < Buffer_line_count(b.rope)}
                    ELSE {line}
        invalidated == LineOffsetCache_invalidate_lines(b.line_cache, affected)
        rope == Rope_insert(b.rope, offset, text)
    IN  [b EXCEPT !.rope = rope,
                  !.line_cache = LineOffsetCache_update_line_count(
                                     invalidated, Rope_line_count(rope))]

CachedBuffer_delete(b, start, end) ==
    LET start_line == Rope_byte_to_line_col(b.rope, start)[1]
        end_line == Rope_byte_to_line_col(b.rope, end)[1]
        affected == IF start_line # end_line
                    THEN {l \in 0..Buffer_line_count(b.rope) : l >= start_line
                                                               /\ l < Buffer_line_count(b.rope)}
                    ELSE {start_line}
        invalidated == LineOffsetCache_invalidate_lines(b.line_cache, affected)
        rope == Rope_delete(b.rope, start, end)
    IN  [b EXCEPT !.rope = rope,
                  !.line_cache = LineOffsetCache_update_line_count(
                                     invalidated, Rope_line_count(rope))]

\* get_line_offsets_batch: the Buffer afterwards and the offsets returned
CachedBuffer_get_line_offsets_batch(b, lines) ==
    LET got == LineOffsetCache_get_offsets_zero_alloc(b.line_cache, lines, b.rope)
    IN  [buffer |-> [b EXCEPT !.line_cache = got.cache], offsets |-> got.offsets]

CachedBuffer_ensure_range_cached(b, range) ==
    [b EXCEPT !.line_cache = LineOffsetCache_ensure_range_cached(b.line_cache, b.rope, range)]

CachedBuffer_update_scroll_prediction(b, visible_range, scroll_delta, frame_time, should_precache) ==
    LET pc == PredictiveCache_update_scroll_prediction(
                  b.predictive_cache, visible_range, scroll_delta, frame_time)
        cached == LineOffsetCache_predictive_ensure_cached(
                      b.line_cache, b.rope, pc, Buffer_line_count(b.rope), should_precache)
    IN  [b EXCEPT !.predictive_cache = pc,
                  !.line_cache =
                      IF LineOffsetCache_cached_lines(cached) > EVICTION_TRIGGER
                      THEN LineOffsetCache_smart_eviction(cached, EVICTION_TARGET)
                      ELSE cached]

\* ------------------------------------------------------------- Transaction
Transaction_insert(text, cursor_before, cursor_after) ==
    [cursor_before |-> cursor_before, cursor_after |-> cursor_after,
     edit |-> [kind |-> "Insert", text |-> text, new_text |-> <<>>]]

Transaction_delete(text, cursor_before, cursor_after) ==
    [cursor_before |-> cursor_before, cursor_after |-> cursor_after,
     edit |-> [kind |-> "Delete", text |-> text, new_text |-> <<>>]]

\* EditKind::Replace { old_text, new_text }: old_text is held in the field `text`
Transaction_replace(old_text, new_text, cursor_before, cursor_after) ==
    [cursor_before |-> cursor_before, cursor_after |-> cursor_after,
     edit |-> [kind |-> "Replace", text |-> old_text, new_text |-> new_text]]

\* ----------------------------------------------------------------- History
\* A stack entry (Arc<Buffer>, Transaction)
Entry(buffer, transaction) == [buffer |-> buffer, transaction |-> transaction]

History_new(buffer) ==
    [undo_stack |-> <<>>, redo_stack |-> <<>>, current |-> buffer]

History_current(h) == h.current

\* History::push as Editor calls it, with the arguments (before, after, transaction).
\* The body is the one at history.rs:32-41, whose parameters are
\* (new_buffer, transaction): it saves self.current, not a buffer handed in by the
\* caller, so the first argument of the Editor's call is not stored anywhere.
History_push(h, before_buffer, new_buffer, transaction) ==
    [undo_stack |-> Append(h.undo_stack, Entry(h.current, transaction)),
     redo_stack |-> <<>>,
     current |-> new_buffer]

\* History::update_current, called by Editor::insert and Editor::undo; no
\* definition of it is in history.rs.
History_update_current(h, new_buffer) ==
    [h EXCEPT !.current = new_buffer]

\* History::undo: the new history and the Option<Transaction> it returns
History_undo(h) ==
    IF h.undo_stack # <<>>
    THEN LET top == h.undo_stack[Len(h.undo_stack)]
         IN  [history |-> [undo_stack |-> SubSeq(h.undo_stack, 1, Len(h.undo_stack) - 1),
                           redo_stack |-> Append(h.redo_stack,
                                                 Entry(h.current, top.transaction)),
                           current |-> top.buffer],
              result |-> <<top.transaction>>]
    ELSE [history |-> h, result |-> <<>>]

\* History::redo that saves the entry it popped, not `current`, on the undo stack
History_redo_saves_popped(h) ==
    IF h.redo_stack # <<>>
    THEN LET top == h.redo_stack[Len(h.redo_stack)]
         IN  [history |-> [undo_stack |-> Append(h.undo_stack, top),
                           redo_stack |-> SubSeq(h.redo_stack, 1, Len(h.redo_stack) - 1),
                           current |-> top.buffer],
              result |-> <<top.transaction>>]
    ELSE [history |-> h, result |-> <<>>]

\* History::redo: the new history and the Option<Transaction> it returns
History_redo(h) ==
    IF h.redo_stack # <<>>
    THEN LET top == h.redo_stack[Len(h.redo_stack)]
         IN  [history |-> [undo_stack |-> Append(h.undo_stack,
                                                 Entry(h.current, top.transaction)),
                           redo_stack |-> SubSeq(h.redo_stack, 1, Len(h.redo_stack) - 1),
                           current |-> top.buffer],
              result |-> <<top.transaction>>]
    ELSE [history |-> h, result |-> <<>>]

History_can_undo(h) == h.undo_stack # <<>>

History_can_redo(h) == h.redo_stack # <<>>

\* --------------------------------------------------------- IndentCalculator
\* get_line_indent: the leading whitespace of a line
RECURSIVE get_line_indent(_)
get_line_indent(line) ==
    IF line = <<>> \/ ~(IsWhitespace(Head(line)) /\ Head(line) # "\n") THEN <<>>
    ELSE <<Head(line)>> \o get_line_indent(Tail(line))

\* str::matches(c).count() summed over the characters of `set`
RECURSIVE CountIn(_, _)
CountIn(s, set) ==
    IF s = <<>> THEN 0
    ELSE (IF Head(s) \in set THEN 1 ELSE 0) + CountIn(Tail(s), set)

\* str::trim().ends_with(c): the last non-whitespace character is c
RECURSIVE TrimmedEndsWith(_, _)
TrimmedEndsWith(s, c) ==
    IF s = <<>> THEN FALSE
    ELSE IF IsWhitespace(s[Len(s)]) THEN TrimmedEndsWith(SubSeq(s, 1, Len(s) - 1), c)
    ELSE s[Len(s)] = c

Spaces(n) == [i \in 1..n |-> " "]

\* IndentCalculator::fallback_indent_with_rope: the path calculate_indent_with_rope
\* takes when the Editor has no file path (Editor::new and Editor::from_text set none).
fallback_indent_with_rope(rope, cursor_line) ==
    LET line_text == Rope_line(rope, cursor_line)
    IN  IF line_text # <<>>
        THEN LET indent == get_line_indent(line_text[1])
                 opens == CountIn(line_text[1], {"{", "[", "("})
                 closes == CountIn(line_text[1], {"}", "]", ")"})
             IN  IF opens > closes \/ TrimmedEndsWith(line_text[1], ":")
                 THEN indent \o Spaces(indent_width)
                 ELSE indent
        ELSE <<>>

\* ------------------------------------------------------------------ Editor
\* An Editor value: history, selection, version and the batching state.
Selection_cursor(point) == [start |-> point, end |-> point]

Editor_from_text(text) ==
    [history |-> History_new(Buffer_from_text(text)),
     selection |-> Selection_cursor(Point_zero),
     version |-> 0,
     pending_insert |-> <<>>,
     pending_start_cursor |-> <<>>,
     pending_start_buffer |-> <<>>]

Editor_new == Editor_from_text(<<>>)

Editor_buffer(e) == History_current(e.history)

Editor_cursor(e) == e.selection.end

Editor_set_cursor(e, point) == [e EXCEPT !.selection = Selection_cursor(point)]

Editor_text(e) == Buffer_to_string(Editor_buffer(e))

\* Editor::flush_pending_insert that reads pending_start_buffer without
\* taking it
Editor_flush_pending_insert_keeps_snapshot(e) ==
    IF e.pending_insert = <<>> THEN e
    ELSE LET pushed ==
                 IF e.pending_start_cursor # <<>>
                 THEN LET transaction ==
                              Transaction_insert(e.pending_insert,
                                                 e.pending_start_cursor[1],
                                                 Editor_cursor(e))
                      IN  IF e.pending_start_buffer # <<>>
                          THEN [e EXCEPT
                                  !.history = History_push(e.history,
                                                           e.pending_start_buffer[1],
                                                           Editor_buffer(e),
                                                           transaction)]
                          ELSE [e EXCEPT
                                  !.history = History_push(e.history,
                                                           Editor_buffer(e),
                                                           Editor_buffer(e),
                                                           transaction)]
                 ELSE e
         IN  [pushed EXCEPT !.pending_insert = <<>>, !.pending_start_cursor = <<>>]

Editor_flush_pending_insert(e) ==
    IF e.pending_insert = <<>> THEN e
    ELSE LET pushed ==
                 IF e.pending_start_cursor # <<>>
                 THEN LET transaction ==
                              Transaction_insert(e.pending_insert,
                                                 e.pending_start_cursor[1],
                                                 Editor_cursor(e))
                      IN  IF e.pending_start_buffer # <<>>
                          THEN [e EXCEPT
                                  !.history = History_push(e.history,
                                                           e.pending_start_buffer[1],
                                                           Editor_buffer(e),
                                                           transaction),
                                  !.pending_start_buffer = <<>>]
                          ELSE [e EXCEPT
                                  !.history = History_push(e.history,
                                                           Editor_buffer(e),
                                                           Editor_buffer(e),
                                                           transaction)]
                 ELSE e
         IN  [pushed EXCEPT !.pending_insert = <<>>, !.pending_start_cursor = <<>>]

\* `text.chars().all(|c| c.is_whitespace())`
AllWhitespace(text) == \A i \in 1..Len(text) : IsWhitespace(text[i])

\* The live update both branches of Editor::insert end with: insert at the cursor,
\* replace `current`, move the cursor behind the inserted text, bump the version.
\* The live update of Editor::insert with the cursor set to offset_to_point
\* of the insert's offset, not of the offset after the inserted text
Editor_insert_apply_keeps_offset(e, cursor_before, text_to_insert) ==
    LET offset == Buffer_point_to_offset(Editor_buffer(e), cursor_before)
        new_buffer == Buffer_insert(Editor_buffer(e), offset, text_to_insert)
        cursor_after == Buffer_offset_to_point(new_buffer, offset)
    IN  [Editor_set_cursor(
             [e EXCEPT !.history = History_update_current(e.history, new_buffer)],
             cursor_after)
         EXCEPT !.version = e.version + 1]

Editor_insert_apply(e, cursor_before, text_to_insert) ==
    LET offset == Buffer_point_to_offset(Editor_buffer(e), cursor_before)
        new_buffer == Buffer_insert(Editor_buffer(e), offset, text_to_insert)
        new_offset == offset + StrLen(text_to_insert)
        cursor_after == Buffer_offset_to_point(new_buffer, new_offset)
    IN  [Editor_set_cursor(
             [e EXCEPT !.history = History_update_current(e.history, new_buffer)],
             cursor_after)
         EXCEPT !.version = e.version + 1]

\* Editor::insert without the whitespace branch: every text joins the batch
Editor_insert_batches_whitespace(e, text) ==
    LET cursor_before == Editor_cursor(e)
        started ==
            IF e.pending_start_cursor = <<>>
            THEN [e EXCEPT !.pending_start_cursor = <<cursor_before>>,
                           !.pending_start_buffer = <<Editor_buffer(e)>>]
            ELSE e
        applied == Editor_insert_apply(started, cursor_before, text)
    IN  [applied EXCEPT !.pending_insert = e.pending_insert \o text]

Editor_insert(e, text) ==
    LET cursor_before == Editor_cursor(e)
    IN  IF AllWhitespace(text)
        THEN LET f == Editor_flush_pending_insert(e)
                 text_to_insert ==
                     IF text = <<"\n">>
                     THEN <<"\n">> \o fallback_indent_with_rope(Editor_buffer(f),
                                                                cursor_before.row)
                     ELSE text
             IN  Editor_insert_apply(f, cursor_before, text_to_insert)
        ELSE LET started ==
                     IF e.pending_start_cursor = <<>>
                     THEN [e EXCEPT !.pending_start_cursor = <<cursor_before>>,
                                    !.pending_start_buffer = <<Editor_buffer(e)>>]
                     ELSE e
                 applied == Editor_insert_apply(started, cursor_before, text)
             IN  [applied EXCEPT !.pending_insert = e.pending_insert \o text]

\* Editor::backspace that replaces `current` without recording a Transaction
Editor_backspace_unrecorded(e) ==
    LET f == [Editor_flush_pending_insert(e) EXCEPT !.pending_start_buffer = <<>>]
        cursor == Editor_cursor(f)
        cursor_offset == Buffer_point_to_offset(Editor_buffer(f), cursor)
        start == cursor_offset - 1
        new_buffer == Buffer_delete(Editor_buffer(f), start, cursor_offset)
        cursor_after == Buffer_offset_to_point(new_buffer, start)
    IN  IF cursor.row = 0 /\ cursor.column = 0 THEN f
        ELSE IF cursor_offset > 0
        THEN [Editor_set_cursor(
                  [f EXCEPT !.history = History_update_current(f.history, new_buffer)],
                  cursor_after)
              EXCEPT !.version = f.version + 1]
        ELSE f

Editor_backspace(e) ==
    LET f == [Editor_flush_pending_insert(e) EXCEPT !.pending_start_buffer = <<>>]
        cursor == Editor_cursor(f)
        cursor_offset == Buffer_point_to_offset(Editor_buffer(f), cursor)
        start == cursor_offset - 1
        deleted_text == Rope_slice_bytes(Editor_buffer(f), start, cursor_offset)
        old_buffer == Editor_buffer(f)
        new_buffer == Buffer_delete(old_buffer, start, cursor_offset)
        cursor_after == Buffer_offset_to_point(new_buffer, start)
        transaction == Transaction_delete(deleted_text, cursor, cursor_after)
    IN  IF cursor.row = 0 /\ cursor.column = 0 THEN f
        ELSE IF cursor_offset > 0
        THEN [Editor_set_cursor(
                  [f EXCEPT !.history = History_push(f.history, old_buffer,
                                                     new_buffer, transaction)],
                  cursor_after)
              EXCEPT !.version = f.version + 1]
        ELSE f

Editor_delete(e) ==
    LET f == Editor_flush_pending_insert(e)
        cursor == Editor_cursor(f)
        cursor_offset == Buffer_point_to_offset(Editor_buffer(f), cursor)
        end == cursor_offset + 1
        deleted_text == Rope_slice_bytes(Editor_buffer(f), cursor_offset, end)
        old_buffer == Editor_buffer(f)
        new_buffer == Buffer_delete(old_buffer, cursor_offset, end)
        transaction == Transaction_delete(deleted_text, cursor, cursor)
    IN  IF cursor_offset < Buffer_len(Editor_buffer(f))
        THEN [f EXCEPT !.history = History_push(f.history, old_buffer,
                                                new_buffer, transaction),
                       !.version = f.version + 1]
        ELSE f

\* What Editor::insert passes to Buffer::insert: the offset of the cursor, in
\* the buffer as it is after the flush a whitespace insert begins with
Editor_insert_offset(e, text) ==
    LET f == IF AllWhitespace(text) THEN Editor_flush_pending_insert(e) ELSE e
    IN  Buffer_point_to_offset(Editor_buffer(f), Editor_cursor(e))

\* What Editor::backspace passes to Rope::slice_bytes and Buffer::delete:
\* <<start, end>>, or <<>> when it returns before either call
Editor_backspace_span(e) ==
    LET f == Editor_flush_pending_insert(e)
        cursor == Editor_cursor(f)
        cursor_offset == Buffer_point_to_offset(Editor_buffer(f), cursor)
    IN  IF cursor.row = 0 /\ cursor.column = 0 THEN <<>>
        ELSE IF cursor_offset > 0 THEN <<cursor_offset - 1, cursor_offset>>
        ELSE <<>>

\* What Editor::delete passes to Rope::slice_bytes and Buffer::delete
Editor_delete_span(e) ==
    LET f == Editor_flush_pending_insert(e)
        cursor_offset == Buffer_point_to_offset(Editor_buffer(f), Editor_cursor(f))
    IN  IF cursor_offset < Buffer_len(Editor_buffer(f))
        THEN <<cursor_offset, cursor_offset + 1>>
        ELSE <<>>

\* The contract of Rope::insert, Rope::delete and Rope::slice_bytes: positions
\* within 0..len, on character boundaries, start <= end.  A span is <<>> when
\* no call is made.
ValidSpan(text, span) ==
    span # <<>> =>
        /\ 0 <= span[1] /\ span[1] <= span[2] /\ span[2] <= StrLen(text)
        /\ IsCharBoundary(text, span[1])
        /\ IsCharBoundary(text, span[2])

\* Editor::undo that commits the pending batch and then pops it, instead of
\* discarding it
Editor_undo_flush_first(e) ==
    LET f == Editor_flush_pending_insert(e)
        u == History_undo(f.history)
    IN  IF u.result # <<>>
        THEN [Editor_set_cursor([f EXCEPT !.history = u.history],
                                u.result[1].cursor_before)
              EXCEPT !.version = f.version + 1]
        ELSE f

Editor_undo(e) ==
    IF e.pending_insert # <<>>
    THEN LET restored ==
                 IF e.pending_start_buffer # <<>>
                 THEN LET r == [e EXCEPT
                                  !.history = History_update_current(
                                                  e.history, e.pending_start_buffer[1]),
                                  !.pending_start_buffer = <<>>]
                      IN  IF e.pending_start_cursor # <<>>
                          THEN Editor_set_cursor(r, e.pending_start_cursor[1])
                          ELSE r
                 ELSE e
         IN  [restored EXCEPT !.pending_insert = <<>>,
                              !.pending_start_cursor = <<>>,
                              !.version = e.version + 1]
    ELSE LET u == History_undo(e.history)
         IN  IF u.result # <<>>
             THEN [Editor_set_cursor([e EXCEPT !.history = u.history],
                                     u.result[1].cursor_before)
                   EXCEPT !.version = e.version + 1]
             ELSE e

\* Editor::redo that leaves the version as it was
Editor_redo_keeps_version(e) ==
    LET c == [e EXCEPT !.pending_insert = <<>>,
                       !.pending_start_cursor = <<>>,
                       !.pending_start_buffer = <<>>]
        r == History_redo(c.history)
    IN  IF r.result # <<>>
        THEN Editor_set_cursor([c EXCEPT !.history = r.history],
                               r.result[1].cursor_after)
        ELSE c

Editor_redo(e) ==
    LET c == [e EXCEPT !.pending_insert = <<>>,
                       !.pending_start_cursor = <<>>,
                       !.pending_start_buffer = <<>>]
        r == History_redo(c.history)
    IN  IF r.result # <<>>
        THEN [Editor_set_cursor([c EXCEPT !.history = r.history],
                                r.result[1].cursor_after)
              EXCEPT !.version = c.version + 1]
        ELSE c

Editor_can_undo(e) == e.pending_insert # <<>> \/ History_can_undo(e.history)

Editor_can_redo(e) == History_can_redo(e.history)

Editor_move_left(e) ==
    LET f == Editor_flush_pending_insert(e)
        cursor == Editor_cursor(f)
        prev_line == Buffer_line(Editor_buffer(f), cursor.row - 1)
    IN  IF cursor.column > 0
        THEN Editor_set_cursor(f, Point(cursor.row, cursor.column - 1))
        ELSE IF cursor.row > 0 /\ prev_line # <<>>
        THEN Editor_set_cursor(f, Point(cursor.row - 1, StrLen(prev_line[1])))
        ELSE f

\* Editor::move_right that stops at the end of a line
Editor_move_right_stays_on_line(e) ==
    LET f == Editor_flush_pending_insert(e)
        cursor == Editor_cursor(f)
        current_line == Buffer_line(Editor_buffer(f), cursor.row)
    IN  IF current_line # <<>> /\ cursor.column < StrLen(current_line[1])
        THEN Editor_set_cursor(f, Point(cursor.row, cursor.column + 1))
        ELSE f

Editor_move_right(e) ==
    LET f == Editor_flush_pending_insert(e)
        cursor == Editor_cursor(f)
        current_line == Buffer_line(Editor_buffer(f), cursor.row)
    IN  IF current_line # <<>>
        THEN IF cursor.column < StrLen(current_line[1])
             THEN Editor_set_cursor(f, Point(cursor.row, cursor.column + 1))
             ELSE IF cursor.row + 1 < Buffer_line_count(Editor_buffer(f))
             THEN Editor_set_cursor(f, Point(cursor.row + 1, 0))
             ELSE f
        ELSE f

\* The column move_up and move_down keep on the row they move to
ClampedColumn(buffer, new_row, column) ==
    LET line == Buffer_line(buffer, new_row)
    IN  IF line # <<>> THEN Min(column, StrLen(line[1])) ELSE 0

Editor_move_up(e) ==
    LET f == Editor_flush_pending_insert(e)
        cursor == Editor_cursor(f)
    IN  IF cursor.row > 0
        THEN Editor_set_cursor(
                 f, Point(cursor.row - 1,
                          ClampedColumn(Editor_buffer(f), cursor.row - 1, cursor.column)))
        ELSE f

Editor_move_down(e) ==
    LET f == Editor_flush_pending_insert(e)
        cursor == Editor_cursor(f)
    IN  IF cursor.row + 1 < Buffer_line_count(Editor_buffer(f))
        THEN Editor_set_cursor(
                 f, Point(cursor.row + 1,
                          ClampedColumn(Editor_buffer(f), cursor.row + 1, cursor.column)))
        ELSE f

Editor_move_to_line_start(e) ==
    LET f == Editor_flush_pending_insert(e)
    IN  Editor_set_cursor(f, Point(Editor_cursor(f).row, 0))

Editor_move_to_line_end(e) ==
    LET f == Editor_flush_pending_insert(e)
        cursor == Editor_cursor(f)
        line == Buffer_line(Editor_buffer(f), cursor.row)
    IN  IF line # <<>>
        THEN Editor_set_cursor(f, Point(cursor.row, StrLen(line[1])))
        ELSE f

Editor_replace_all(e, new_text) ==
    LET f == Editor_flush_pending_insert(e)
        old_cursor == Editor_cursor(f)
        old_buffer == Editor_buffer(f)
        new_buffer == Buffer_from_text(new_text)
        last_row == Buffer_line_count(new_buffer) - 1
        new_cursor ==
            IF old_cursor.row < Buffer_line_count(new_buffer)
            THEN LET line == Buffer_line(new_buffer, old_cursor.row)
                 IN  IF line # <<>>
                     THEN Point(old_cursor.row, Min(old_cursor.column, StrLen(line[1])))
                     ELSE Point_zero
            ELSE LET last_line == Buffer_line(new_buffer, last_row)
                 IN  IF last_line # <<>>
                     THEN Point(last_row, StrLen(last_line[1]))
                     ELSE Point_zero
        transaction == Transaction_replace(Editor_text(f), new_text, old_cursor, new_cursor)
    IN  [Editor_set_cursor(
             [f EXCEPT !.history = History_push(f.history, old_buffer,
                                                new_buffer, transaction)],
             new_cursor)
         EXCEPT !.version = f.version + 1]

\* ------------------------------------------------------------ state machine
\* One Editor.  The first eight variables are the fields of Editor and of its
\* History; the rest record what has happened, for the properties below, and are
\* never read by an operation.
VARIABLES
    undo_stack,             \* History.undo_stack
    redo_stack,             \* History.redo_stack
    current,                \* History.current
    selection,              \* Editor.selection
    version,                \* Editor.version
    pending_insert,         \* Editor.pending_insert
    pending_start_cursor,   \* Editor.pending_start_cursor
    pending_start_buffer,   \* Editor.pending_start_buffer
    moves,                  \* the number of cursor movements made so far
    constructed,            \* the text the Editor was constructed with
    last,                   \* the last operation and what the Editor held just before it
    batch_start,            \* text and cursor when the pending batch began, if one is pending
    undo_log,               \* for each undo_stack entry: text and cursor before/after its edit
    redo_log,               \* the same for each redo_stack entry
    scn,                    \* progress of a "type words, undo, redo" run
    buf,                    \* a Buffer of its own, used through the Buffer API
    btext,                  \* the text the last Buffer edit must leave, computed on a plain string
    blast,                  \* the last Buffer operation, its arguments and what it returned
    bedits,                 \* the number of Buffer edits made so far
    nodes,                  \* the memory of Arc<Node> allocations
    cells,                  \* the memory of Arc<Rope> allocations
    handles,                \* the SumTree, Rope and Buffer values that share them
    seen,                   \* what each handle observed when it was made or last changed itself
    hlast,                  \* the last operation on a handle
    hops                    \* the number of mutations of handles made so far

vars == <<undo_stack, redo_stack, current, selection, version, pending_insert,
          pending_start_cursor, pending_start_buffer, moves, constructed, last,
          batch_start, undo_log, redo_log, scn, buf, btext, blast, bedits,
          nodes, cells, handles, seen, hlast, hops>>

\* The variables of the stand-alone Buffer
bvars == <<buf, btext, blast, bedits>>

\* The variables of the handles that share nodes and cells
hvars == <<nodes, cells, handles, seen, hlast, hops>>

\* The Editor value the variables hold
Ed ==
    [history |-> [undo_stack |-> undo_stack, redo_stack |-> redo_stack,
                  current |-> current],
     selection |-> selection,
     version |-> version,
     pending_insert |-> pending_insert,
     pending_start_cursor |-> pending_start_cursor,
     pending_start_buffer |-> pending_start_buffer]

\* Inputs
InitTexts == {<<>>, <<"a", "\n", "a">>}
InsertTexts == {<<"a">>, <<" ">>, <<"\n">>}
ReplaceTexts == {<<"b">>}

\* Text and cursor of an Editor value, and the heights of its stacks
Snap(e) == [text |-> Editor_text(e), cursor |-> Editor_cursor(e),
            ulen |-> Len(e.history.undo_stack), rlen |-> Len(e.history.redo_stack)]

NoScn == [st |-> "none", fresh |-> FALSE, snaps |-> <<>>, u |-> 0, r |-> 0]

IsFresh(e) == e = Editor_from_text(constructed)

IsWordChar(text) == Len(text) = 1 /\ ~AllWhitespace(text)

\* Operations that call flush_pending_insert before anything else
Flushing ==
    {"insert_ws", "backspace", "delete", "replace_all", "move_left", "move_right",
     "move_up", "move_down", "move_to_line_start", "move_to_line_end"}

Moves ==
    {"move_left", "move_right", "move_up", "move_down", "move_to_line_start",
     "move_to_line_end"}

\* scn follows a run of: words typed one character per insert, each ended by one
\* space; then undo() calls; then redo() calls.  snaps[1] is the Editor before
\* the first word, snaps[i+1] the Editor after the space that ended word i.
ScnNext(op, arg, e, e2) ==
    IF op = "insert" /\ IsWordChar(arg)
    THEN IF e.pending_insert # <<>> THEN scn
         ELSE IF scn.st = "words" THEN [scn EXCEPT !.st = "typing"]
         ELSE [st |-> "typing", fresh |-> IsFresh(e), snaps |-> <<Snap(e)>>,
               u |-> 0, r |-> 0]
    ELSE IF op = "insert_ws" /\ arg = <<" ">> /\ scn.st = "typing"
    THEN [scn EXCEPT !.st = "words", !.snaps = Append(scn.snaps, Snap(e2))]
    ELSE IF op = "undo" /\ scn.st \in {"words", "undo"} /\ scn.u < Len(scn.snaps) - 1
    THEN [scn EXCEPT !.st = "undo", !.u = scn.u + 1]
    ELSE IF op = "redo" /\ scn.st \in {"undo", "redo"} /\ scn.r < scn.u
    THEN [scn EXCEPT !.st = "redo", !.r = scn.r + 1]
    ELSE NoScn

\* The log records of the entries an operation pushed: the flushed batch first
\* (from the start of the batch to the Editor as the operation found it), then
\* the operation's own edit.
Pushed(op, e, e2) ==
    LET k == Len(e2.history.undo_stack) - Len(e.history.undo_stack)
        flushed == op \in Flushing /\ e.pending_insert # <<>> /\ batch_start # <<>>
        batch == [before |-> batch_start[1], after |-> Snap(e)]
        own == [before |-> Snap(e), after |-> Snap(e2)]
    IN  [i \in 1..k |-> IF flushed /\ i = 1 THEN batch ELSE own]

UndoLogNext(op, e, e2) ==
    IF op = "undo" /\ e.pending_insert = <<>>
    THEN SubSeq(undo_log, 1, Len(e2.history.undo_stack))
    ELSE IF op = "redo"
    THEN IF Len(e2.history.undo_stack) > Len(e.history.undo_stack) /\ redo_log # <<>>
         THEN Append(undo_log, redo_log[Len(redo_log)])
         ELSE undo_log
    ELSE undo_log \o Pushed(op, e, e2)

RedoLogNext(op, e, e2) ==
    IF op = "undo" /\ e.pending_insert = <<>>
    THEN IF Len(e2.history.redo_stack) > Len(e.history.redo_stack) /\ undo_log # <<>>
         THEN Append(redo_log, undo_log[Len(undo_log)])
         ELSE redo_log
    ELSE SubSeq(redo_log, 1, Min(Len(redo_log), Len(e2.history.redo_stack)))

BatchStartNext(e, e2) ==
    IF e2.pending_insert = <<>> THEN <<>>
    ELSE IF e.pending_insert = <<>> THEN <<Snap(e)>>
    ELSE batch_start

\* The Editor becomes e2 by operation op with argument arg.
Step(op, arg, e2) ==
    /\ undo_stack' = e2.history.undo_stack
    /\ redo_stack' = e2.history.redo_stack
    /\ current' = e2.history.current
    /\ selection' = e2.selection
    /\ version' = e2.version
    /\ pending_insert' = e2.pending_insert
    /\ pending_start_cursor' = e2.pending_start_cursor
    /\ pending_start_buffer' = e2.pending_start_buffer
    /\ moves' = IF op \in Moves THEN moves + 1 ELSE moves
    /\ constructed' = constructed
    /\ last' = [op |-> op, arg |-> arg, batch |-> pending_insert,
                start |-> batch_start, before |-> Snap(Ed)]
    /\ batch_start' = BatchStartNext(Ed, e2)
    /\ undo_log' = UndoLogNext(op, Ed, e2)
    /\ redo_log' = RedoLogNext(op, Ed, e2)
    /\ scn' = ScnNext(op, arg, Ed, e2)
    /\ UNCHANGED bvars
    /\ UNCHANGED hvars

\* No Buffer operation has happened
NoBufOp == [op |-> "none", arg |-> <<>>, before |-> <<>>, offsets |-> <<>>]

\* The stand-alone Buffer is not in use
BufferIdle ==
    /\ buf = CachedBuffer_new
    /\ btext = <<>>
    /\ blast = NoBufOp
    /\ bedits = 0

\* No operation on a handle has happened
NoHandleOp == [op |-> "none", handle |-> 0, shared |-> FALSE]

\* No handle is in use
HandlesIdle ==
    /\ nodes = <<>>
    /\ cells = <<>>
    /\ handles = <<>>
    /\ seen = <<>>
    /\ hlast = NoHandleOp
    /\ hops = 0

Init ==
    \E text \in InitTexts :
        LET e == Editor_from_text(text)
        IN  /\ undo_stack = e.history.undo_stack
            /\ redo_stack = e.history.redo_stack
            /\ current = e.history.current
            /\ selection = e.selection
            /\ version = e.version
            /\ pending_insert = e.pending_insert
            /\ pending_start_cursor = e.pending_start_cursor
            /\ pending_start_buffer = e.pending_start_buffer
            /\ moves = 0
            /\ constructed = text
            /\ last = [op |-> "new", arg |-> text, batch |-> <<>>,
                       start |-> <<>>, before |-> Snap(e)]
            /\ batch_start = <<>>
            /\ undo_log = <<>>
            /\ redo_log = <<>>
            /\ scn = NoScn
            /\ BufferIdle
            /\ HandlesIdle

Insert(text) ==
    /\ version < MaxVersion
    /\ Step(IF AllWhitespace(text) THEN "insert_ws" ELSE "insert", text,
            Editor_insert(Ed, text))

Backspace ==
    /\ version < MaxVersion
    /\ Step("backspace", <<>>, Editor_backspace(Ed))

Delete ==
    /\ version < MaxVersion
    /\ Step("delete", <<>>, Editor_delete(Ed))

Undo ==
    /\ version < MaxVersion
    /\ Step("undo", <<>>, Editor_undo(Ed))

Redo ==
    /\ version < MaxVersion
    /\ Step("redo", <<>>, Editor_redo(Ed))

ReplaceAll(new_text) ==
    /\ version < MaxVersion
    /\ Step("replace_all", new_text, Editor_replace_all(Ed, new_text))

MoveLeft ==
    /\ moves < MaxMoves
    /\ Step("move_left", <<>>, Editor_move_left(Ed))

MoveRight ==
    /\ moves < MaxMoves
    /\ Step("move_right", <<>>, Editor_move_right(Ed))

MoveUp ==
    /\ moves < MaxMoves
    /\ Step("move_up", <<>>, Editor_move_up(Ed))

MoveDown ==
    /\ moves < MaxMoves
    /\ Step("move_down", <<>>, Editor_move_down(Ed))

MoveToLineStart ==
    /\ moves < MaxMoves
    /\ Step("move_to_line_start", <<>>, Editor_move_to_line_start(Ed))

MoveToLineEnd ==
    /\ moves < MaxMoves
    /\ Step("move_to_line_end", <<>>, Editor_move_to_line_end(Ed))

Next ==
    \/ \E text \in InsertTexts : Insert(text)
    \/ Backspace
    \/ Delete
    \/ Undo
    \/ Redo
    \/ \E new_text \in ReplaceTexts : ReplaceAll(new_text)
    \/ MoveLeft
    \/ MoveRight
    \/ MoveUp
    \/ MoveDown
    \/ MoveToLineStart
    \/ MoveToLineEnd

Spec == Init /\ [][Next]_vars

\* Typing only: one word character or one space per insert, undo and redo, to a
\* depth that lets two words be typed, undone and redone.
TypeChar ==
    /\ version < MaxWordVersion
    /\ Step("insert", <<"a">>, Editor_insert(Ed, <<"a">>))

TypeSpace ==
    /\ version < MaxWordVersion
    /\ Step("insert_ws", <<" ">>, Editor_insert(Ed, <<" ">>))

TypeUndo ==
    /\ version < MaxWordVersion
    /\ Step("undo", <<>>, Editor_undo(Ed))

TypeRedo ==
    /\ version < MaxWordVersion
    /\ Step("redo", <<>>, Editor_redo(Ed))

NextWords == TypeChar \/ TypeSpace \/ TypeUndo \/ TypeRedo

SpecWords == Init /\ [][NextWords]_vars

\* The operations of Spec one edit deeper, so that an edit, a cursor movement,
\* an unrecorded whitespace insert, an undo and a redo fit in one behaviour.
DeepInsert(text) ==
    /\ version < MaxDeepVersion
    /\ Step(IF AllWhitespace(text) THEN "insert_ws" ELSE "insert", text,
            Editor_insert(Ed, text))

DeepBackspace ==
    /\ version < MaxDeepVersion
    /\ Step("backspace", <<>>, Editor_backspace(Ed))

DeepDelete ==
    /\ version < MaxDeepVersion
    /\ Step("delete", <<>>, Editor_delete(Ed))

DeepUndo ==
    /\ version < MaxDeepVersion
    /\ Step("undo", <<>>, Editor_undo(Ed))

DeepRedo ==
    /\ version < MaxDeepVersion
    /\ Step("redo", <<>>, Editor_redo(Ed))

DeepReplaceAll(new_text) ==
    /\ version < MaxDeepVersion
    /\ Step("replace_all", new_text, Editor_replace_all(Ed, new_text))

NextDeep ==
    \/ \E text \in InsertTexts : DeepInsert(text)
    \/ DeepBackspace
    \/ DeepDelete
    \/ DeepUndo
    \/ DeepRedo
    \/ \E new_text \in ReplaceTexts : DeepReplaceAll(new_text)
    \/ MoveLeft
    \/ MoveRight
    \/ MoveUp
    \/ MoveDown
    \/ MoveToLineStart
    \/ MoveToLineEnd

SpecDeep == Init /\ [][NextDeep]_vars

\* Keys on a document that holds two-byte characters.  String::drain,
\* String::insert_str and a str slice panic at an offset inside a character,
\* so a key is taken only while the positions it passes are valid: a panic
\* ends the program.
KeyTexts == {<<>>, <<"a", "U+00E9", "b">>, <<"U+00E9", "\n", "b", "\n">>}

KeyInsertTexts == {<<"a">>, <<"U+00E9">>, <<" ">>}

\* The Editor is Editor::from_text(text)
EditorFromText(text) ==
    LET e == Editor_from_text(text)
    IN  /\ undo_stack = e.history.undo_stack
        /\ redo_stack = e.history.redo_stack
        /\ current = e.history.current
        /\ selection = e.selection
        /\ version = e.version
        /\ pending_insert = e.pending_insert
        /\ pending_start_cursor = e.pending_start_cursor
        /\ pending_start_buffer = e.pending_start_buffer
        /\ moves = 0
        /\ constructed = text
        /\ last = [op |-> "new", arg |-> text, batch |-> <<>>,
                   start |-> <<>>, before |-> Snap(e)]
        /\ batch_start = <<>>
        /\ undo_log = <<>>
        /\ redo_log = <<>>
        /\ scn = NoScn

InitKeys ==
    /\ \E text \in KeyTexts : EditorFromText(text)
    /\ BufferIdle
    /\ HandlesIdle

KeyInsert(text) ==
    /\ LET o == Editor_insert_offset(Ed, text)
       IN  ValidSpan(Editor_text(Ed), <<o, o>>)
    /\ Insert(text)

KeyBackspace ==
    /\ ValidSpan(Editor_text(Ed), Editor_backspace_span(Ed))
    /\ Backspace

KeyDelete ==
    /\ ValidSpan(Editor_text(Ed), Editor_delete_span(Ed))
    /\ Delete

NextKeys ==
    \/ \E text \in KeyInsertTexts : KeyInsert(text)
    \/ KeyBackspace
    \/ KeyDelete
    \/ MoveLeft
    \/ MoveRight

SpecKeys == InitKeys /\ [][NextKeys]_vars

\* ------------------------------------------- state machine of one Buffer
\* A Buffer used directly through its own API: edits, and the three calls that
\* drive its line cache.
evars == <<undo_stack, redo_stack, current, selection, version, pending_insert,
           pending_start_cursor, pending_start_buffer, moves, constructed, last,
           batch_start, undo_log, redo_log, scn>>

\* "ab\n" six times: REBUILD_THRESHOLD bytes or more, so edits splice chunks
LongText ==
    <<"a", "b", "\n", "a", "b", "\n", "a", "b", "\n",
      "a", "b", "\n", "a", "b", "\n", "a", "b", "\n">>

\* As long, with a two-byte character in every line
LongWideText ==
    <<"a", "U+00E9", "b", "\n", "a", "U+00E9", "b", "\n",
      "a", "U+00E9", "b", "\n", "a", "U+00E9", "b", "\n">>

BufferTexts ==
    {<<>>,
     <<"a", "\n", "b", "\n", "c">>,
     <<"a", "a", "a", "U+00E9", "\n", "b", "\n">>,
     LongText,
     LongWideText}

BufInsertTexts == {<<"x">>, <<"\n">>, <<"U+00E9">>, <<"x", "\n">>}

CacheRanges == {Range(0, 1), Range(1, 3), Range(2, 8)}

BatchLines == {<<0>>, <<1, 2>>, <<7>>}

\* The byte offsets of s that lie on a character boundary
ValidOffsets(s) == {StrLen(SubSeq(s, 1, k)) : k \in 0..Len(s)}

\* The offsets edits are made at: the two ends of the text and the offsets
\* around the end of its first chunk
EditOffsets(s) ==
    ValidOffsets(s) \cap {0, CHUNK_SIZE - 1, CHUNK_SIZE, CHUNK_SIZE + 1, StrLen(s)}

\* The Editor is not in use
EditorIdle ==
    LET e == Editor_new
    IN  /\ undo_stack = e.history.undo_stack
        /\ redo_stack = e.history.redo_stack
        /\ current = e.history.current
        /\ selection = e.selection
        /\ version = e.version
        /\ pending_insert = e.pending_insert
        /\ pending_start_cursor = e.pending_start_cursor
        /\ pending_start_buffer = e.pending_start_buffer
        /\ moves = 0
        /\ constructed = <<>>
        /\ last = [op |-> "new", arg |-> <<>>, batch |-> <<>>,
                   start |-> <<>>, before |-> Snap(e)]
        /\ batch_start = <<>>
        /\ undo_log = <<>>
        /\ redo_log = <<>>
        /\ scn = NoScn

\* buf is Buffer::from_text(text)
BufferFromText(text) ==
    /\ buf = CachedBuffer_from_text(text)
    /\ btext = text
    /\ blast = [op |-> "from_text", arg |-> text, before |-> <<>>, offsets |-> <<>>]
    /\ bedits = 0
    /\ HandlesIdle

\* What a Buffer edit remembers of the Buffer it found
BufBefore == [len |-> Rope_len(buf.rope), text |-> Rope_to_string(buf.rope)]

BufInsert(offset, text) ==
    /\ bedits < MaxBufferEdits
    /\ buf' = CachedBuffer_insert(buf, offset, text)
    /\ btext' = InsertStr(Rope_to_string(buf.rope), offset, text)
    /\ blast' = [op |-> "insert", arg |-> [offset |-> offset, text |-> text],
                 before |-> <<BufBefore>>, offsets |-> <<>>]
    /\ bedits' = bedits + 1
    /\ UNCHANGED evars
    /\ UNCHANGED hvars

BufDelete(start, end) ==
    /\ bedits < MaxBufferEdits
    /\ start <= end
    /\ end - start <= MaxDeleteBytes
    /\ buf' = CachedBuffer_delete(buf, start, end)
    /\ btext' = DrainStr(Rope_to_string(buf.rope), start, end)
    /\ blast' = [op |-> "delete", arg |-> [start |-> start, end |-> end],
                 before |-> <<BufBefore>>, offsets |-> <<>>]
    /\ bedits' = bedits + 1
    /\ UNCHANGED evars
    /\ UNCHANGED hvars

BufEnsureRangeCached(range) ==
    /\ buf' = CachedBuffer_ensure_range_cached(buf, range)
    /\ blast' = [op |-> "ensure_range_cached", arg |-> range,
                 before |-> <<>>, offsets |-> <<>>]
    /\ UNCHANGED <<btext, bedits>>
    /\ UNCHANGED evars
    /\ UNCHANGED hvars

BufGetLineOffsetsBatch(lines) ==
    /\ LET got == CachedBuffer_get_line_offsets_batch(buf, lines)
       IN  /\ buf' = got.buffer
           /\ blast' = [op |-> "get_line_offsets_batch", arg |-> lines,
                        before |-> <<>>, offsets |-> got.offsets]
    /\ UNCHANGED <<btext, bedits>>
    /\ UNCHANGED evars
    /\ UNCHANGED hvars

BufUpdateScrollPrediction(visible_range, scroll_delta, frame_time, should_precache) ==
    /\ buf' = CachedBuffer_update_scroll_prediction(buf, visible_range, scroll_delta,
                                                    frame_time, should_precache)
    /\ blast' = [op |-> "update_scroll_prediction", arg |-> visible_range,
                 before |-> <<>>, offsets |-> <<>>]
    /\ UNCHANGED <<btext, bedits>>
    /\ UNCHANGED evars
    /\ UNCHANGED hvars

\* Edits only, on texts that include one long enough for the splicing path
InitEdits == EditorIdle /\ \E text \in BufferTexts : BufferFromText(text)

NextEdits ==
    \/ \E offset \in EditOffsets(Rope_to_string(buf.rope)), text \in BufInsertTexts :
           BufInsert(offset, text)
    \/ \E start, end \in EditOffsets(Rope_to_string(buf.rope)) : BufDelete(start, end)

SpecEdits == InitEdits /\ [][NextEdits]_vars

\* Edits interleaved with the calls that fill and read the line cache
CacheTexts == BufferTexts \ {LongText, LongWideText}

CacheInsert(offset, text) == bedits < MaxCacheEdits /\ BufInsert(offset, text)

CacheDelete(start, end) == bedits < MaxCacheEdits /\ BufDelete(start, end)

InitBuffer == EditorIdle /\ \E text \in CacheTexts : BufferFromText(text)

NextBuffer ==
    \/ \E offset \in EditOffsets(Rope_to_string(buf.rope)), text \in BufInsertTexts :
           CacheInsert(offset, text)
    \/ \E start, end \in EditOffsets(Rope_to_string(buf.rope)) : CacheDelete(start, end)
    \/ \E range \in CacheRanges : BufEnsureRangeCached(range)
    \/ \E lines \in BatchLines : BufGetLineOffsetsBatch(lines)
    \/ \E scroll_delta \in {-1, 0, 1}, should_precache \in BOOLEAN :
           BufUpdateScrollPrediction(Range(1, 3), scroll_delta, 1, should_precache)

SpecBuffer == InitBuffer /\ [][NextBuffer]_vars

\* ------------------------------------- where the Rope cuts and slices text
\* The byte offsets at which the code slices a string.  A slice at an offset
\* inside a character is a panic in the source, so each offset is kept as a
\* number of bytes next to the string it is applied to.

\* The alignment loop left out: the cut stays where start + CHUNK_SIZE put it
align_to_char_boundary_skipped(text, end) == end

\* while end < text.len() && !text.is_char_boundary(end) { end += 1 }
RECURSIVE align_to_char_boundary(_, _)
align_to_char_boundary(text, end) ==
    IF end < StrLen(text) /\ ~IsCharBoundary(text, end)
    THEN align_to_char_boundary(text, end + 1)
    ELSE end

\* The chunking loop of Rope::from_text from byte offset start on: the `end`
\* of every chunk it cuts
RECURSIVE from_text_cuts(_, _)
from_text_cuts(text, start) ==
    IF start >= StrLen(text) THEN <<>>
    ELSE LET end == align_to_char_boundary(text, Min(start + CHUNK_SIZE, StrLen(text)))
         IN  <<end>> \o from_text_cuts(text, end)

\* insert_optimized: the chunk it splits and the offset it splits it at, if any
insert_optimized_slices(rope, pos) ==
    LET at == insert_locate(rope, pos, 0, 0, <<0, 0>>)
    IN  IF at[1] < Len(rope) /\ at[2] > 0
        THEN <<[str |-> rope[at[1] + 1], at |-> at[2]]>>
        ELSE <<>>

\* delete_optimized: for every chunk the range overlaps, the offsets
\* keep_start and keep_end at which it slices the chunk
RECURSIVE delete_optimized_slices(_, _, _, _)
delete_optimized_slices(chunks, start, end, current_pos) ==
    IF chunks = <<>> THEN <<>>
    ELSE LET chunk_text == Head(chunks)
             chunk_len == Chunk_len(chunk_text)
             chunk_end == current_pos + chunk_len
             keep_start == IF current_pos < start THEN start - current_pos ELSE 0
             keep_end == IF chunk_end > end THEN end - current_pos ELSE chunk_len
         IN  (IF chunk_end <= start \/ current_pos >= end THEN <<>>
              ELSE (IF keep_start > 0
                    THEN <<[str |-> chunk_text, at |-> keep_start]>> ELSE <<>>)
                   \o (IF keep_end < chunk_len
                       THEN <<[str |-> chunk_text, at |-> keep_end]>> ELSE <<>>))
             \o delete_optimized_slices(Tail(chunks), start, end, chunk_end)

\* How a call of Rope::insert ends: "panic" when String::insert_str is given a
\* position past the end or inside a character, "done" when the call returns.
\* insert_optimized slices only the chunk that holds pos, at pos.
Rope_insert_outcome(rope, pos, text) ==
    IF text = <<>> THEN "done"
    ELSE IF Rope_len(rope) < REBUILD_THRESHOLD
         THEN IF IsCharBoundary(Rope_to_string(rope), pos) THEN "done" ELSE "panic"
         ELSE LET slices == insert_optimized_slices(rope, pos)
              IN  IF \A i \in 1..Len(slices) : IsCharBoundary(slices[i].str, slices[i].at)
                  THEN "done" ELSE "panic"

\* How a call of Rope::delete ends: "panic" when String::drain is given a range
\* that ends past the end or at an offset inside a character, "done" when the
\* call returns.  delete_optimized slices only chunks the range overlaps.
Rope_delete_outcome(rope, start, end) ==
    IF start >= end THEN "done"
    ELSE IF Rope_len(rope) < REBUILD_THRESHOLD
         THEN IF /\ IsCharBoundary(Rope_to_string(rope), start)
                 /\ IsCharBoundary(Rope_to_string(rope), end)
              THEN "done" ELSE "panic"
         ELSE LET slices == delete_optimized_slices(rope, start, end, 0)
              IN  IF \A i \in 1..Len(slices) : IsCharBoundary(slices[i].str, slices[i].at)
                  THEN "done" ELSE "panic"

\* --------------------------- state machine of handles that share memory
\* One SumTree, Rope or Buffer is made, then cloned and changed through any of
\* its handles.  A handle is [kind, tree, cell]: a SumTree or Rope value holds
\* its root in `tree`, a Buffer holds the address of its Arc<Rope> in `cell`.
HandleKinds == {"tree", "rope", "buffer"}

ShareTexts == {<<>>, <<"a", "\n", "b">>, LongText}

PushItems == {<<"a">>, <<"\n", "b">>}

\* The inserts made through a handle: at the start or at the end of its text
ShareInserts ==
    {[at_end |-> FALSE, text |-> <<"x">>], [at_end |-> TRUE, text |-> <<"\n">>]}

\* The tree a handle reads
HandleTree(c, hs, h) ==
    IF hs[h].kind = "buffer" THEN c[hs[h].cell].tree ELSE hs[h].tree

\* What a handle observes: the items its tree yields, and the length and line
\* count of its summary
Observe(n, c, hs, h) ==
    LET tree == HandleTree(c, hs, h)
    IN  [content |-> SumTree_iter(n, tree),
         len |-> SumTree_summary(n, tree).len,
         lines |-> SumTree_summary(n, tree).lines]

\* The byte length of what handle h holds
HandleLen(h) == SumTree_summary(nodes, HandleTree(cells, handles, h)).len

\* The first handle is SumTree::new(), Rope::from_text(text) or Buffer::from_text(text)
InitShare ==
    /\ EditorIdle
    /\ BufferIdle
    /\ hlast = [op |-> "new", handle |-> 1, shared |-> FALSE]
    /\ hops = 0
    /\ \E kind \in HandleKinds, text \in ShareTexts :
           LET made == TreeRope_from_text(<<>>, text)
           IN  /\ kind = "tree" => text = <<>>
               /\ nodes = made.nodes
               /\ cells = IF kind = "buffer" THEN <<made.rope>> ELSE <<>>
               /\ handles = <<[kind |-> kind,
                               tree |-> IF kind = "buffer" THEN SumTree_new
                                        ELSE made.rope.tree,
                               cell |-> IF kind = "buffer" THEN 1 ELSE 0]>>
               /\ seen = <<Observe(nodes, cells, handles, 1)>>

\* The step of a handle h that has changed itself
Mutated(op, h, shared, n2, c2, hs2) ==
    /\ nodes' = n2
    /\ cells' = c2
    /\ handles' = hs2
    /\ seen' = [seen EXCEPT ![h] = Observe(n2, c2, hs2, h)]
    /\ hlast' = [op |-> op, handle |-> h, shared |-> shared]
    /\ hops' = hops + 1
    /\ UNCHANGED evars
    /\ UNCHANGED bvars

\* SumTree::clone, Rope::clone, Buffer::clone: the new handle holds the same
\* root, or the same cell
HandleClone(h) ==
    /\ Len(handles) < MaxHandles
    /\ handles' = Append(handles, handles[h])
    /\ seen' = Append(seen, seen[h])
    /\ hlast' = [op |-> "clone", handle |-> h, shared |-> FALSE]
    /\ UNCHANGED <<nodes, cells, hops>>
    /\ UNCHANGED evars
    /\ UNCHANGED bvars

TreePush(h, item) ==
    /\ hops < MaxShareOps
    /\ handles[h].kind = "tree"
    /\ LET pushed == SumTree_push(nodes, handles[h].tree, item)
       IN  Mutated("push", h, \E g \in 1..Len(handles) : g # h /\ handles[g] = handles[h],
                   pushed.nodes, cells, [handles EXCEPT ![h].tree = pushed.tree])

RopeInsert(h, pos, text) ==
    /\ hops < MaxShareOps
    /\ handles[h].kind = "rope"
    /\ LET made == TreeRope_insert(nodes, handles[h], pos, text)
       IN  Mutated("insert", h, \E g \in 1..Len(handles) : g # h /\ handles[g] = handles[h],
                   made.nodes, cells, [handles EXCEPT ![h].tree = made.rope.tree])

RopeDelete(h, start, end) ==
    /\ hops < MaxShareOps
    /\ handles[h].kind = "rope"
    /\ end <= HandleLen(h)
    /\ LET made == TreeRope_delete(nodes, handles[h], start, end)
       IN  Mutated("delete", h, \E g \in 1..Len(handles) : g # h /\ handles[g] = handles[h],
                   made.nodes, cells, [handles EXCEPT ![h].tree = made.rope.tree])

\* Buffer::insert: Arc::make_mut, then Rope::insert on the cell it returns
SharedBufferInsert(h, pos, text) ==
    /\ hops < MaxShareOps
    /\ handles[h].kind = "buffer"
    /\ LET own == Arc_make_mut(cells, handles, h)
           cell == own.handles[h].cell
           made == TreeRope_insert(nodes, own.cells[cell], pos, text)
       IN  Mutated("buffer_insert", h, Arc_strong_count(handles, handles[h].cell) > 1,
                   made.nodes, [own.cells EXCEPT ![cell] = made.rope], own.handles)

\* Buffer::delete: Arc::make_mut, then Rope::delete on the cell it returns
SharedBufferDelete(h, start, end) ==
    /\ hops < MaxShareOps
    /\ handles[h].kind = "buffer"
    /\ end <= HandleLen(h)
    /\ LET own == Arc_make_mut(cells, handles, h)
           cell == own.handles[h].cell
           made == TreeRope_delete(nodes, own.cells[cell], start, end)
       IN  Mutated("buffer_delete", h, Arc_strong_count(handles, handles[h].cell) > 1,
                   made.nodes, [own.cells EXCEPT ![cell] = made.rope], own.handles)

NextShare ==
    \/ \E h \in 1..Len(handles) : HandleClone(h)
    \/ \E h \in 1..Len(handles), item \in PushItems : TreePush(h, item)
    \/ \E h \in 1..Len(handles), edit \in ShareInserts :
           RopeInsert(h, IF edit.at_end THEN HandleLen(h) ELSE 0, edit.text)
    \/ \E h \in 1..Len(handles) : RopeDelete(h, 0, 1)
    \/ \E h \in 1..Len(handles), edit \in ShareInserts :
           SharedBufferInsert(h, IF edit.at_end THEN HandleLen(h) ELSE 0, edit.text)
    \/ \E h \in 1..Len(handles) : SharedBufferDelete(h, 0, 1)

SpecShare == InitShare /\ [][NextShare]_vars

\* ------------------------------------------------------------------ claims
Text == Buffer_to_string(current)

Cursor == selection.end

\* How many entries the last operation added to the undo stack
Grew == Len(undo_stack) - last.before.ulen

\* Index of the first undo_stack entry the last operation pushed
FirstPushed == last.before.ulen + 1

\* The snapshot a "type words, undo, redo" run took before its last word
WordStart == scn.snaps[Len(scn.snaps) - 1]

\* The snapshot taken after the space that ended the run's last word
WordEnd == scn.snaps[Len(scn.snaps)]

\* post is pre with exactly one character removed
RemovedOne(pre, post) ==
    \E i \in 1..Len(pre) : post = SubSeq(pre, 1, i - 1) \o SubSeq(pre, i + 1, Len(pre))

\* C1: a word typed one character per insert and ended by one space adds exactly
\* one undo_stack entry, and one undo() then restores the text and the cursor
\* that held before the word's first character.
C1_WordIsOneUndoStep ==
    /\ scn.st = "words" => Len(undo_stack) = WordStart.ulen + 1
    /\ scn.st = "undo" /\ scn.u = 1 =>
           Text = WordStart.text /\ Cursor = WordStart.cursor

\* C2: undo() with a batch pending sets text and cursor to those at the start of
\* the batch, empties the batching state, and pushes nothing onto either stack.
C2_UndoDiscardsPending ==
    last.op = "undo" /\ last.batch # <<>> =>
        /\ last.start # <<>>
        /\ Text = last.start[1].text
        /\ Cursor = last.start[1].cursor
        /\ pending_insert = <<>>
        /\ pending_start_cursor = <<>>
        /\ pending_start_buffer = <<>>
        /\ Len(undo_stack) = last.before.ulen
        /\ Len(redo_stack) = last.before.rlen

\* C2 witness: undo() has just discarded a pending batch that was typed on top of
\* a non-empty undo stack.
C2_Witness ==
    /\ last.op = "undo"
    /\ last.batch # <<>>
    /\ undo_stack # <<>>
    /\ Text # last.before.text

\* C3: after a word and its space were typed and undone by one undo(), one
\* redo() restores the text and the cursor that held before the undo.
C3_RedoRestoresWord ==
    scn.st = "redo" /\ scn.u = 1 /\ scn.r = 1 =>
        Text = WordEnd.text /\ Cursor = WordEnd.cursor

\* C4: n words typed into a fresh editor: the k-th undo() leaves the text as it
\* was after word n-k, and after n undos the k-th redo() leaves the text as it
\* was after word k.
C4_WordsUndoRedoInOrder ==
    scn.fresh =>
        /\ scn.st = "undo" => Text = scn.snaps[Len(scn.snaps) - scn.u].text
        /\ scn.st = "redo" /\ scn.u = Len(scn.snaps) - 1 =>
               Text = scn.snaps[scn.r + 1].text

\* C5: the undo() that pops a committed edit's Transaction leaves the text and
\* cursor that held immediately before that edit; the redo() that re-applies it
\* leaves the text and cursor that held immediately after that edit.
C5_UndoRedoExactInverse ==
    /\ last.op = "undo" /\ last.batch = <<>> /\ Grew = -1 =>
           /\ Text = redo_log[Len(redo_log)].before.text
           /\ Cursor = redo_log[Len(redo_log)].before.cursor
    /\ last.op = "redo" /\ Grew = 1 =>
           /\ Text = undo_log[Len(undo_log)].after.text
           /\ Cursor = undo_log[Len(undo_log)].after.cursor

\* C6: can_undo() is false only when nothing is pending and the text is the
\* constructed document; whenever the text differs from it, can_undo() is true.
C6_CanUndoFalseOnlyWhenFresh ==
    /\ ~Editor_can_undo(Ed) => pending_insert = <<>> /\ Text = constructed
    /\ Text # constructed => Editor_can_undo(Ed)

\* C7: a backspace() or delete() that removes a character, and every
\* replace_all(), pushes exactly one Transaction of its own (after the flushed
\* batch, if one was pending), paired with the buffer as it was before the call,
\* leaves `current` as the edited buffer, and leaves no pending batch.
C7_EditCommitsOwnTransaction ==
    (\/ last.op \in {"backspace", "delete"} /\ Text # last.before.text
     \/ last.op = "replace_all")
    =>
    /\ Grew = (IF last.batch # <<>> THEN 2 ELSE 1)
    /\ Buffer_to_string(undo_stack[Len(undo_stack)].buffer) = last.before.text
    /\ undo_stack[Len(undo_stack)].transaction.edit.kind =
           (IF last.op = "replace_all" THEN "Replace" ELSE "Delete")
    /\ undo_stack[Len(undo_stack)].transaction.cursor_before = last.before.cursor
    /\ undo_stack[Len(undo_stack)].transaction.cursor_after = Cursor
    /\ IF last.op = "replace_all" THEN Text = last.arg
       ELSE RemovedOne(last.before.text, Text)
    /\ redo_stack = <<>>
    /\ pending_insert = <<>>
    /\ pending_start_cursor = <<>>
    /\ pending_start_buffer = <<>>

\* C7 witness: a backspace() has just removed a character while a batch was
\* pending, so the call pushed the flushed batch and then its own Transaction.
C7_Witness ==
    /\ last.op = "backspace"
    /\ last.batch # <<>>
    /\ Text # last.before.text
    /\ Len(undo_stack) >= 2

\* C8: backspace, delete, replace_all or a cursor movement called with a batch
\* pending first commits the batch as exactly one Insert Transaction whose
\* snapshot is the buffer as it was when the batch started, and leaves no batch.
C8_FlushBeforeStructuralOp ==
    last.op \in (Flushing \ {"insert_ws"}) /\ last.batch # <<>> =>
        /\ Grew >= 1
        /\ undo_stack[FirstPushed].transaction.edit.kind = "Insert"
        /\ undo_stack[FirstPushed].transaction.edit.text = last.batch
        /\ Buffer_to_string(undo_stack[FirstPushed].buffer) = last.start[1].text
        /\ \A i \in (FirstPushed + 1)..Len(undo_stack) :
               undo_stack[i].transaction.edit.kind # "Insert"
        /\ pending_insert = <<>>
        /\ pending_start_cursor = <<>>
        /\ pending_start_buffer = <<>>

\* C9: redo() called with a batch pending first pushes the batch's Insert
\* Transaction onto the undo stack.
C9_RedoFlushesPending ==
    last.op = "redo" /\ last.batch # <<>> =>
        /\ Grew >= 1
        /\ undo_stack[FirstPushed].transaction.edit.kind = "Insert"
        /\ undo_stack[FirstPushed].transaction.edit.text = last.batch
        /\ undo_stack[FirstPushed].transaction.cursor_before = last.start[1].cursor

\* C10: History.push(before, after, txn), with the arguments a flush of the
\* pending batch passes, pushes exactly the pair (before, txn), sets current to
\* after and empties the redo stack.
C10_PushStoresCallerSnapshot ==
    pending_insert # <<>> /\ pending_start_cursor # <<>> /\ pending_start_buffer # <<>> =>
        LET txn == Transaction_insert(pending_insert, pending_start_cursor[1], Cursor)
            h == History_push(Ed.history, pending_start_buffer[1], current, txn)
        IN  /\ h.undo_stack = Append(undo_stack, Entry(pending_start_buffer[1], txn))
            /\ h.current = current
            /\ h.redo_stack = <<>>

\* The History of the Editor
Hist == Ed.history

\* C11: History.undo() on a non-empty undo stack pops (before, txn), pushes
\* (current, txn) onto the redo stack, sets current to before and returns txn;
\* redo() is its mirror image; undo() then redo(), and redo() then undo(), give
\* back the same History; on an empty stack each returns nothing and changes
\* nothing.
C11_HistoryUndoRedoMirror ==
    LET h == Hist
        u == History_undo(h)
        r == History_redo(h)
    IN  /\ h.undo_stack # <<>> =>
               LET top == h.undo_stack[Len(h.undo_stack)]
               IN  /\ u.result = <<top.transaction>>
                   /\ u.history.undo_stack = SubSeq(h.undo_stack, 1, Len(h.undo_stack) - 1)
                   /\ u.history.redo_stack =
                          Append(h.redo_stack, Entry(h.current, top.transaction))
                   /\ u.history.current = top.buffer
                   /\ History_redo(u.history).history = h
                   /\ History_redo(u.history).result = u.result
        /\ h.redo_stack # <<>> =>
               LET top == h.redo_stack[Len(h.redo_stack)]
               IN  /\ r.result = <<top.transaction>>
                   /\ r.history.redo_stack = SubSeq(h.redo_stack, 1, Len(h.redo_stack) - 1)
                   /\ r.history.undo_stack =
                          Append(h.undo_stack, Entry(h.current, top.transaction))
                   /\ r.history.current = top.buffer
                   /\ History_undo(r.history).history = h
                   /\ History_undo(r.history).result = r.result
        /\ h.undo_stack = <<>> => u.result = <<>> /\ u.history = h
        /\ h.redo_stack = <<>> => r.result = <<>> /\ r.history = h

\* C11 witness: an undo() has popped an entry while another stays below it, so
\* both stacks are non-empty and the popped snapshot differs from `current`.
C11_Witness ==
    /\ last.op = "undo"
    /\ last.batch = <<>>
    /\ undo_stack # <<>>
    /\ redo_stack # <<>>
    /\ redo_stack[Len(redo_stack)].buffer # current

\* C12: insert("") in any state, undo() when can_undo() is false and redo() when
\* can_redo() is false leave the whole Editor (text, cursor, version, pending
\* batch, undo stack, redo stack) as it was.
C12_DegenerateInputsAreNoOps ==
    /\ Editor_insert(Ed, <<>>) = Ed
    /\ ~Editor_can_undo(Ed) => Editor_undo(Ed) = Ed
    /\ ~Editor_can_redo(Ed) => Editor_redo(Ed) = Ed

\* C13: across every Editor operation the version does not decrease, and it
\* increases whenever the operation changes the text; so along one Editor's
\* history equal versions mean equal texts.
C13_VersionFollowsText ==
    [][/\ version' >= version
       /\ Buffer_to_string(current') # Buffer_to_string(current) => version' > version]_vars

\* C13 witness: a redo() has just changed the text, after earlier edits.
C13_Witness ==
    /\ last.op = "redo"
    /\ Text # last.before.text
    /\ version > 1

\* C14: every line-to-offset entry the cache holds, and every offset
\* get_line_offsets_batch has just returned, equals Rope.line_to_byte of that
\* line computed afresh on the current text.
C14_CacheMatchesRope ==
    /\ \A line \in 0..buf.line_cache.cached_range.end :
           LineOffsetCache_get_cached_offset(buf.line_cache, line) # <<>> =>
               LineOffsetCache_get_cached_offset(buf.line_cache, line)[1]
                   = Rope_line_to_byte(buf.rope, line)
    /\ blast.op = "get_line_offsets_batch" =>
           \A j \in 1..Len(blast.offsets) :
               blast.offsets[j] = Rope_line_to_byte(buf.rope, blast.arg[j])

\* C17: Rope::from_text(T).to_string() = T for every text T the Buffer is built
\* from or reaches by an edit, texts of several chunks and texts with a
\* two-byte character across the chunk size included: the chunks it is cut
\* into, and the items its tree yields in order, concatenate to T.
C17_FromTextToString ==
    /\ Rope_to_string(Rope_from_text(btext)) = btext
    /\ LET made == TreeRope_from_text(<<>>, btext)
       IN  TreeRope_to_string(made.nodes, made.rope) = btext
    /\ blast.op = "from_text" =>
           Rope_to_string(buf.rope) = blast.arg

\* A text of several chunks whose first chunk ends with a two-byte character
\* that starts before CHUNK_SIZE and ends after it.
C17_Witness ==
    LET rope == Rope_from_text(btext)
    IN  /\ Len(rope) > 1
        /\ Chunk_len(rope[1]) = CHUNK_SIZE + 1
        /\ rope[1][Len(rope[1])] \in WideChars

\* C15: whatever push, insert or delete is applied through one handle, every
\* other handle (a clone, or the one it was cloned from) still observes the
\* content, length and line count it had: each handle observes what it
\* observed when it was made or last changed itself.
C15_OtherHandlesUnchanged ==
    \A h \in 1..Len(handles) : Observe(nodes, cells, handles, h) = seen[h]

\* A Buffer whose Arc<Rope> was shared with a clone has just been edited, and
\* the two now hold different texts.
C15_Witness ==
    /\ hlast.op \in {"buffer_insert", "buffer_delete"}
    /\ hlast.shared
    /\ \E g \in 1..Len(handles) : seen[g].content # seen[hlast.handle].content

\* C16: every node's cached summary is the combination of its items' or its
\* children's summaries, so the len() and line_count() of every tree, Rope and
\* Buffer are the byte length and the number of newlines of its to_string().
C16_SummaryInvariant ==
    /\ \A n \in 1..Len(nodes) :
           nodes[n].summary =
               IF nodes[n].leaf THEN SumSummaries(nodes[n].items)
               ELSE LET RECURSIVE Combine(_)
                        Combine(children) ==
                            IF children = <<>> THEN TextMetrics_default
                            ELSE TextMetrics_add_summary(nodes[Head(children)].summary,
                                                         Combine(Tail(children)))
                    IN  Combine(nodes[n].children)
    /\ \A h \in 1..Len(handles) :
           LET tree == HandleTree(cells, handles, h)
               text == Rope_to_string(SumTree_iter(nodes, tree))
           IN  /\ SumTree_summary(nodes, tree).len = StrLen(text)
               /\ SumTree_summary(nodes, tree).lines = CountIn(text, {"\n"})

\* A tree grown by push to an internal node over an internal node.
C16_Witness ==
    /\ hlast.op = "push"
    /\ \E n \in 1..Len(nodes) :
           /\ ~nodes[n].leaf
           /\ \E k \in 1..Len(nodes[n].children) : ~nodes[nodes[n].children[k]].leaf

\* C18: after every Buffer insert or delete with valid arguments, len() is
\* len() before it plus the bytes inserted, or minus the bytes deleted, on the
\* rebuilding path and on the chunk-splicing path alike.
C18_LenAfterEdit ==
    /\ blast.op = "insert" =>
           Rope_len(buf.rope) = blast.before[1].len + StrLen(blast.arg.text)
    /\ blast.op = "delete" =>
           Rope_len(buf.rope) = blast.before[1].len - (blast.arg.end - blast.arg.start)

\* C19: for every offset o of the Buffer on a character boundary, 0 <= o <= len,
\* point_to_offset(offset_to_point(o)) = o.
C19_OffsetRoundTrip ==
    \A o \in ValidOffsets(Rope_to_string(buf.rope)) :
        Buffer_point_to_offset(buf.rope, Buffer_offset_to_point(buf.rope, o)) = o

\* C20: for every Point p of the Buffer with row < line_count() and column at
\* most the number of characters of that row, offset_to_point(point_to_offset(p)) = p.
C20_PointRoundTrip ==
    \A row \in 0..(Buffer_line_count(buf.rope) - 1) :
        LET line_text == Buffer_line(buf.rope, row)
            chars == IF line_text # <<>> THEN Len(line_text[1]) ELSE 0
        IN  \A column \in 0..chars :
                Buffer_offset_to_point(buf.rope,
                                       Buffer_point_to_offset(buf.rope, Point(row, column)))
                    = Point(row, column)

\* An edited Buffer of several chunks that holds a two-byte character and ends
\* with a newline: its offsets include chunk boundaries, newlines and the end.
C19_Witness ==
    /\ blast.op \in {"insert", "delete"}
    /\ Len(buf.rope) > 1
    /\ \E k \in 1..Len(btext) : btext[k] \in WideChars
    /\ btext # <<>> /\ btext[Len(btext)] = "\n"
    /\ Rope_to_string(buf.rope) = btext

\* An edited Buffer of several chunks and at least three rows, one of which
\* has characters after a two-byte character.
C20_Witness ==
    /\ blast.op \in {"insert", "delete"}
    /\ Len(buf.rope) > 1
    /\ Buffer_line_count(buf.rope) >= 3
    /\ \E row \in 0..(Buffer_line_count(buf.rope) - 1) :
           LET line_text == Buffer_line(buf.rope, row)
           IN  /\ line_text # <<>>
               /\ \E k \in 1..(Len(line_text[1]) - 1) : line_text[1][k] \in WideChars

\* The lines of a plain text, split at its newlines: one more than it has newlines
RECURSIVE SplitLines(_, _)
SplitLines(s, line) ==
    IF s = <<>> THEN <<line>>
    ELSE IF Head(s) = "\n" THEN <<line>> \o SplitLines(Tail(s), <<>>)
    ELSE SplitLines(Tail(s), Append(line, Head(s)))

\* The byte offset at which line `row` of the split text starts
RECURSIVE LineStartIn(_, _)
LineStartIn(lines, row) ==
    IF row = 0 THEN 0
    ELSE StrLen(Head(lines)) + 1 + LineStartIn(Tail(lines), row - 1)

\* The rows and columns point_to_offset is asked for: every row and two past
\* the last, every column of the longest line and two past its end
ProbeRows == 0..(Buffer_line_count(buf.rope) + 1)
ProbeColumns ==
    LET lines == SplitLines(Rope_to_string(buf.rope), <<>>)
        longest == CHOOSE n \in {Len(lines[i]) : i \in 1..Len(lines)} :
                       \A i \in 1..Len(lines) : Len(lines[i]) <= n
    IN  0..(longest + 2)

\* C21: for any Point, point_to_offset yields an offset in 0..len: the end of
\* the document for a row past the last line, the end of the line (before its
\* newline) for a column past the line's end, the column's offset otherwise.
C21_PointToOffsetClamps ==
    LET text == Rope_to_string(buf.rope)
        lines == SplitLines(text, <<>>)
    IN  \A row \in ProbeRows, column \in ProbeColumns :
            LET o == Buffer_point_to_offset(buf.rope, Point(row, column))
            IN  /\ 0 <= o /\ o <= Buffer_len(buf.rope)
                /\ row >= Len(lines) => o = StrLen(text)
                /\ row < Len(lines) =>
                       o = LineStartIn(lines, row)
                           + StrLen(TakeChars(lines[row + 1], column))

\* An edited Buffer of several chunks whose first line is shorter than its
\* text and holds a two-byte character, so that columns past a line's end and
\* rows past the last line are both asked for.
C21_Witness ==
    LET lines == SplitLines(Rope_to_string(buf.rope), <<>>)
    IN  /\ blast.op \in {"insert", "delete"}
        /\ Len(buf.rope) > 1
        /\ Len(lines) >= 2
        /\ \E k \in 1..Len(lines[1]) : lines[1][k] \in WideChars

\* The text of the Buffer, and whether its edits splice chunks
BufText == Rope_to_string(buf.rope)
Splicing == Rope_len(buf.rope) >= REBUILD_THRESHOLD

\* C22: every offset at which Rope::from_text cuts a text, and every offset at
\* which the splicing insert and delete slice a chunk when they are called at
\* character boundaries, is a character boundary of the string it is applied
\* to; the chunks of from_text are the text between consecutive cuts. The
\* deletes are those of up to MaxDeleteBytes bytes from every boundary: a
\* chunk is sliced at start when start lies inside it and at end when end
\* does, so longer ranges slice at no other offsets.
C22_ChunksOnCharBoundaries ==
    /\ LET cuts == from_text_cuts(btext, 0)
           chunks == Rope_from_text(btext)
       IN  /\ \A i \in 1..Len(cuts) : IsCharBoundary(btext, cuts[i])
           /\ Len(chunks) = Len(cuts)
           /\ \A i \in 1..Len(cuts) :
                  chunks[i] = StrSlice(btext, IF i = 1 THEN 0 ELSE cuts[i - 1], cuts[i])
    /\ Splicing =>
           /\ \A pos \in ValidOffsets(BufText) :
                  LET slices == insert_optimized_slices(buf.rope, pos)
                  IN  \A i \in 1..Len(slices) : IsCharBoundary(slices[i].str, slices[i].at)
           /\ \A start, end \in ValidOffsets(BufText) :
                  start <= end /\ end - start <= MaxDeleteBytes =>
                      LET slices == delete_optimized_slices(buf.rope, start, end, 0)
                      IN  \A i \in 1..Len(slices) :
                              IsCharBoundary(slices[i].str, slices[i].at)

\* A spliced Buffer that holds a two-byte character inside a chunk with
\* characters on both sides of it, so that insert and delete slice that chunk.
C22_Witness ==
    /\ Splicing
    /\ blast.op \in {"insert", "delete"}
    /\ blast.before[1].len >= REBUILD_THRESHOLD
    /\ \E c \in 1..Len(buf.rope) :
           \E k \in 2..(Len(buf.rope[c]) - 1) : buf.rope[c][k] \in WideChars

\* C23: in every state the Editor reaches, the positions its next insert,
\* backspace or delete would pass to Buffer::insert, Buffer::delete and
\* Rope::slice_bytes are within 0..len, with start <= end, on character
\* boundaries.
C23_EditorPositionsValid ==
    /\ \A text \in KeyInsertTexts :
           LET o == Editor_insert_offset(Ed, text)
           IN  ValidSpan(Text, <<o, o>>)
    /\ ValidSpan(Text, Editor_backspace_span(Ed))
    /\ ValidSpan(Text, Editor_delete_span(Ed))

\* C24: Rope::insert with a position past the end, and Rope::delete with a
\* range that is reversed or ends past the end, end in a panic and never
\* return, whether the Buffer rebuilds or splices.
C24_ContractViolationsFailFast ==
    LET len == Rope_len(buf.rope)
    IN  /\ \A text \in BufInsertTexts :
               Rope_insert_outcome(buf.rope, len + 1, text) = "panic"
        /\ \A start \in 0..len :
               Rope_delete_outcome(buf.rope, start, len + 1) = "panic"
        /\ \A start \in 1..len :
               Rope_delete_outcome(buf.rope, start, start - 1) = "panic"

\* C25: line_count() of the Buffer is 1 plus the number of newline characters
\* of its text, and 1 for an empty Buffer, after from_text and after every
\* insert and delete.
C25_LineCountIsNewlinesPlusOne ==
    /\ Buffer_line_count(buf.rope) = 1 + CountIn(BufText, {"\n"})
    /\ BufText = <<>> => Buffer_line_count(buf.rope) = 1

\* A newline has just been inserted into a Buffer that splices chunks, or a
\* newline has just been deleted from one: the count has changed.
C25_Witness ==
    /\ blast.op \in {"insert", "delete"}
    /\ blast.before[1].len >= REBUILD_THRESHOLD
    /\ CountIn(BufText, {"\n"}) # CountIn(blast.before[1].text, {"\n"})

\* C26: for every line index i for which Rope::line returns a line,
\* line_byte_range(i) is (line_to_byte(i), end) with end at the line's newline,
\* or at len for a last line without one, and slice_bytes(start, end) is that
\* line, without a newline; where line(i) is absent, line_byte_range(i) is None.
C26_LineByteRange ==
    \A i \in ProbeRows :
        LET line == Rope_line(buf.rope, i)
            range == Rope_line_byte_range(buf.rope, i)
        IN  /\ line = <<>> => range = <<>>
            /\ line # <<>> =>
                   /\ range # <<>>
                   /\ range[1][1] = Rope_line_to_byte(buf.rope, i)
                   /\ range[1][2] = range[1][1] + StrLen(line[1])
                   /\ \/ range[1][2] = Rope_len(buf.rope)
                      \/ StrSlice(BufText, range[1][2], range[1][2] + 1) = <<"\n">>
                   /\ Rope_slice_bytes(buf.rope, range[1][1], range[1][2]) = line[1]
                   /\ CountIn(line[1], {"\n"}) = 0

\* An edited Buffer in which a line with a two-byte character runs across a
\* chunk's end, an empty line exists, and a row past the last line is asked for.
C26_Witness ==
    /\ blast.op \in {"insert", "delete"}
    /\ \E i \in ProbeRows : Rope_line(buf.rope, i) = <<>>
    /\ \E i \in ProbeRows : Rope_line(buf.rope, i) = <<<<>>>>
    /\ \E i \in ProbeRows :
           LET range == Rope_line_byte_range(buf.rope, i)
           IN  /\ range # <<>>
               /\ range[1][1] < Chunk_len(buf.rope[1])
               /\ range[1][2] > Chunk_len(buf.rope[1])
               /\ \E k \in 1..Len(Rope_line(buf.rope, i)[1]) :
                      Rope_line(buf.rope, i)[1][k] \in WideChars

\* C27: on a Buffer that splices chunks, for every position and range on
\* character boundaries and every text, insert_optimized and delete_optimized
\* leave the text that editing the whole string and re-chunking it leaves.
C27_SpliceEqualsRebuild ==
    Splicing =>
        /\ \A pos \in ValidOffsets(BufText), text \in BufInsertTexts :
               Rope_to_string(Rope_insert_optimized(buf.rope, pos, text))
                   = Rope_to_string(Rope_from_text(InsertStr(BufText, pos, text)))
        /\ \A start, end \in ValidOffsets(BufText) :
               start < end =>
                   Rope_to_string(Rope_delete_optimized(buf.rope, start, end, 0))
                       = Rope_to_string(Rope_from_text(DrainStr(BufText, start, end)))

\* C28: an insert of whitespace only puts its text into the live buffer at the
\* cursor at once; a batch that was pending is committed first as the only
\* Transaction the call pushes, the whitespace joins no batch and gets no
\* Transaction of its own, and no batch is pending afterwards.
C28_WhitespaceNeverBatched ==
    last.op = "insert_ws" =>
        LET pre == last.before.text
            o == Buffer_point_to_offset(Rope_from_text(pre), last.before.cursor)
            k == CharsBefore(pre, o, 0)
            n == Len(Text) - Len(pre)
            inserted == SubSeq(Text, k + 1, k + n)
        IN  /\ n >= Len(last.arg)
            /\ Text = SubSeq(pre, 1, k) \o inserted \o SubSeq(pre, k + 1, Len(pre))
            /\ SubSeq(inserted, 1, Len(last.arg)) = last.arg
            /\ AllWhitespace(inserted)
            /\ pending_insert = <<>>
            /\ pending_start_cursor = <<>>
            /\ Grew = (IF last.batch # <<>> THEN 1 ELSE 0)
            /\ Grew = 1 =>
                   /\ undo_stack[FirstPushed].transaction.edit.kind = "Insert"
                   /\ undo_stack[FirstPushed].transaction.edit.text = last.batch

\* A space has just been inserted while a word was pending: the word was
\* committed, the space is in the text.
C28_Witness ==
    /\ last.op = "insert_ws"
    /\ last.arg = <<" ">>
    /\ last.batch # <<>>
    /\ Grew = 1
    /\ Len(Text) = Len(last.before.text) + 1

\* C29: after an insert, backspace, delete or replace_all that changed the
\* text, can_redo() is false.
C29_EditsInvalidateRedo ==
    /\ last.op \in {"insert", "insert_ws", "backspace", "delete", "replace_all"}
    /\ Text # last.before.text
    => ~Editor_can_redo(Ed)

\* C30: when undo() changed the text, the redo() that follows it at once
\* restores exactly the text that held just before that undo().
C30_RedoRestoresUndone ==
    /\ last.op = "undo"
    /\ Text # last.before.text
    => Editor_text(Editor_redo(Ed)) = last.before.text

\* Whether point is a position of text: a row the text has and a column of
\* at most that row's number of characters
PointIn(text, point) ==
    LET lines == SplitLines(text, <<>>)
    IN  /\ point.row < Len(lines)
        /\ point.column <= Len(lines[point.row + 1])

\* C31: after any sequence of Editor operations that starts from a valid
\* cursor, the cursor is a valid position of the current text: its row is
\* below line_count() and its column is at most the row's character count.
C31_CursorStaysValid ==
    /\ Cursor.row < Buffer_line_count(Hist.current)
    /\ PointIn(Text, Cursor)

\* C32: in every reachable Editor state the pending text is non-empty iff a
\* pending start cursor is recorded iff a pending start snapshot is recorded;
\* after every operation other than a non-whitespace insert all three are
\* empty.
C32_BatchingStateConsistent ==
    /\ (pending_insert # <<>>) <=> (pending_start_cursor # <<>>)
    /\ (pending_start_cursor # <<>>) <=> (pending_start_buffer # <<>>)
    /\ last.op # "insert" =>
           /\ pending_insert = <<>>
           /\ pending_start_cursor = <<>>
           /\ pending_start_buffer = <<>>

\* A cursor movement found a batch pending and left the batching state empty.
C32_Witness ==
    /\ last.op = "move_left"
    /\ last.batch # <<>>
    /\ pending_insert = <<>>
    /\ pending_start_cursor = <<>>
    /\ pending_start_buffer = <<>>

\* The cached offset of a line (Some) or nothing, and the line a byte offset
\* of a text lies on: the number of newlines before it
CacheEntry(b, line) == LineOffsetCache_get_cached_offset(b.line_cache, line)
HasNewline(text) == \E i \in 1..Len(text) : text[i] = "\n"
LineOfOffset(text, offset) ==
    LET before == StrSlice(text, 0, offset)
    IN  Cardinality({k \in 1..Len(before) : before[k] = "\n"})

\* What Buffer::insert and Buffer::delete leave of the cache `pre` in `post`
\* when the edit starts on line `first`
EditInvalidates(pre, post, first, multi_line) ==
    LET lines == 0..(pre.line_cache.cached_range.end + post.line_cache.cached_range.end)
    IN  IF multi_line
        THEN \A line \in lines : line >= first => CacheEntry(post, line) = <<>>
        ELSE /\ CacheEntry(post, first) = <<>>
             /\ \A line \in lines \ {first} : CacheEntry(post, line) = CacheEntry(pre, line)

\* C33: Buffer.insert of text with a newline, and Buffer.delete spanning more
\* than one line, clear every cached line-offset entry from the first affected
\* line to the end of the cache window; an edit confined to one line clears
\* only that line's entry and leaves every other cached entry as it was.
C33_EditInvalidation ==
    [][/\ blast'.op = "insert" /\ bedits' = bedits + 1 =>
              EditInvalidates(buf, buf', LineOfOffset(btext, blast'.arg.offset),
                              HasNewline(blast'.arg.text))
       /\ blast'.op = "delete" /\ bedits' = bedits + 1 =>
              EditInvalidates(buf, buf', LineOfOffset(btext, blast'.arg.start),
                              HasNewline(StrSlice(btext, blast'.arg.start,
                                                  blast'.arg.end)))]_vars

\* An insert with a newline on a line below a line whose entry is still
\* cached, into a cache window that reached the edited line.
C33_Witness ==
    /\ blast.op = "insert"
    /\ HasNewline(blast.arg.text)
    /\ LET first == LineOfOffset(blast.before[1].text, blast.arg.offset)
       IN  /\ first > 0
           /\ CacheEntry(buf, first - 1) # <<>>
           /\ buf.line_cache.cached_range.end > first

\* C37: for every Buffer, line(i) returns a line for every i < line_count()
\* and nothing for every i >= line_count(), so lines() returns exactly
\* line_count() entries, also for the empty buffer and for texts that end
\* with a newline.
C37_LinesMatchLineCount ==
    /\ \A i \in 0..(Buffer_line_count(buf.rope) + 1) :
           (Buffer_line(buf.rope, i) # <<>>) <=> (i < Buffer_line_count(buf.rope))
    /\ Len(Buffer_lines(buf.rope)) = Buffer_line_count(buf.rope)

\* The number of characters of a text before a point of it
RECURSIVE CharsBeforePoint(_, _, _)
CharsBeforePoint(lines, row, column) ==
    IF row = 0 THEN column
    ELSE Len(Head(lines)) + 1 + CharsBeforePoint(Tail(lines), row - 1, column)

\* A text without its k-th character
WithoutChar(text, k) == SubSeq(text, 1, k - 1) \o SubSeq(text, k + 1, Len(text))

\* C34: backspace() at a valid cursor other than (0,0) removes exactly the
\* character before the cursor and moves the cursor to where it was; delete()
\* removes exactly the character at the cursor and leaves the cursor;
\* backspace() at (0,0) and delete() at the end of the document change
\* neither the text, the cursor nor the undo stack.
C34_BackspaceAndDelete ==
    LET pre == last.before.text
        at == last.before.cursor
        lines == SplitLines(pre, <<>>)
        k == CharsBeforePoint(lines, at.row, at.column)
    IN  /\ last.op = "backspace" /\ PointIn(pre, at) =>
               IF at = Point(0, 0)
               THEN /\ Text = pre /\ Cursor = at
                    /\ Len(undo_stack) = last.before.ulen
               ELSE /\ Text = WithoutChar(pre, k)
                    /\ Cursor = IF at.column > 0
                                THEN Point(at.row, at.column - 1)
                                ELSE Point(at.row - 1, Len(lines[at.row]))
        /\ last.op = "delete" /\ PointIn(pre, at) =>
               IF k = Len(pre)
               THEN /\ Text = pre /\ Cursor = at
                    /\ Len(undo_stack) = last.before.ulen
               ELSE /\ Text = WithoutChar(pre, k + 1)
                    /\ Cursor = at

ValidPoints(text) ==
    LET lines == SplitLines(text, <<>>)
    IN  {p \in [row : 0..(Len(lines) - 1), column : 0..Len(text)] : PointIn(text, p)}

\* C36: for every document and every valid cursor other than (0,0),
\* move_left() followed by move_right() returns the cursor to where it was
\* (crossing a line boundary from column 0), and neither call changes the
\* text or the version.
C36_LeftThenRight ==
    \A p \in ValidPoints(Text) \ {Point(0, 0)} :
        LET e == Editor_set_cursor(Ed, p)
            l == Editor_move_left(e)
            r == Editor_move_right(l)
        IN  /\ Editor_cursor(r) = p
            /\ Editor_text(l) = Text /\ Editor_text(r) = Text
            /\ l.version = version /\ r.version = version

\* A document of several lines with a two-byte character and a batch
\* pending, so that the cursor crosses a line boundary and move_left flushes.
C36_Witness ==
    /\ Len(SplitLines(Text, <<>>)) >= 2
    /\ \E k \in 1..Len(Text) : Text[k] \in WideChars
    /\ pending_insert # <<>>

\* C38: the number of cached line-offset entries is bounded by the eviction
\* ceiling: no batch lookup, ensure_range_cached or scroll-prediction
\* prefetch returns with more than the ceiling cached.
C38_CacheBoundedByCeiling ==
    blast.op \in {"get_line_offsets_batch", "ensure_range_cached",
                  "update_scroll_prediction"} =>
        LineOffsetCache_cached_lines(buf.line_cache) <= EVICTION_TRIGGER

\* C39: after ensure_range_cached(r) returns, every line of r that lies
\* within the document has a populated cache entry, also when entries inside
\* the cache window were invalidated by an earlier edit or dropped by a
\* line-count update.
C39_RangeCachedAfterEnsure ==
    blast.op = "ensure_range_cached" =>
        \A line \in blast.arg.start..(blast.arg.end - 1) :
            line < Buffer_line_count(buf.rope) => CacheEntry(buf, line) # <<>>

=============================================================================
